---- MODULE Spec2Model ----
(***************************************************************************)
(* The Hi-Tek project dashboard: a single-page client over a spreadsheet   *)
(* store (sheets Projects, Tasks, Expenses, Materials).                    *)
(*                                                                         *)
(* Three variants of the client live in the repository:                    *)
(*   src/script.js          SheetDB REST variant        (Spec)             *)
(*   src/unnamed/part_001   Apps Script fetch variant   (SpecAS)           *)
(*   src/unnamed/part_000   Apps Script iframe variant  (SpecIF)           *)
(*                                                                         *)
(* Every await of the source is a point where other handlers may run: an   *)
(* asynchronous handler is a record in the bag `inflight` from the moment  *)
(* its synchronous prefix has run until its last continuation has run.     *)
(* A request reaches the store and its response reaches the client in one  *)
(* step (the completion action of the request).                            *)
(***************************************************************************)
EXTENDS Integers, Sequences, FiniteSets, Bags, TLC

(***************************************************************************)
(* Bounds of the model.                                                    *)
(***************************************************************************)
MaxEvents == 1        \* user events (clicks, submits, selections) per behaviour
MaxFaults == 1        \* requests that fail per behaviour
MaxPending == 2       \* a user event arrives while at most this many handlers are suspended
NumTasks == 2         \* length of the workflow template kept (23 in the source)
MaxQty == 2           \* largest quantity / amount a form input takes

(***************************************************************************)
(* Program constants.                                                      *)
(***************************************************************************)
NoProject == 0        \* currentProjectID = null (also the selector's "" option)
NaN == -99            \* the value parseFloat / parseInt give for non-numeric text
RecentCount == 10     \* expenses listed and summed by loadExpenses

HI_TEK_TASKS_MAP == [i \in 1..NumTasks |-> i]

ProjectNames == {"a", "b"}
Statuses == {"Pending", "Completed"}
ProgressInputs == {0, 100}
AmountInputs == (-1..MaxQty) \cup {NaN}
Quantities == 0..MaxQty
FetchOutcomes == {"ok", "fail", "notarray"}
WriteOutcomes == {"ok", "httperr", "neterr"}

VARIABLES
    projects,             \* sheet Projects: sequence of rows
    tasks,                \* sheet Tasks
    expenses,             \* sheet Expenses
    materials,            \* sheet Materials
    nextItem,             \* source of the timestamp part of a new ItemID
    currentProjectID,     \* let currentProjectID
    allProjects,          \* let allProjects
    projectSelector,      \* [options, value] of #projectSelector
    storedProjectID,      \* localStorage item 'currentProjectID'
    currentProjectName,   \* text of #currentProjectName
    details,              \* the project details block and its edit form
    taskPanel,            \* #taskTableBody
    expensePanel,         \* #recentExpensesList
    materialPanel,        \* #materialTableBody
    kpi,                  \* the KPI tiles
    totalSpent,           \* let totalSpent
    taskToUpdateSelector, \* options of #taskToUpdateSelector
    inflight,             \* bag of suspended handlers and loaders
    lastAlert,            \* the last alert() shown
    unhandled,            \* an unhandled promise rejection was raised
    events,               \* user events so far
    faults                \* requests that failed so far

store == <<projects, tasks, expenses, materials, nextItem>>
session == <<currentProjectID, allProjects, projectSelector, storedProjectID>>
ui == <<currentProjectName, details, taskPanel, expensePanel, materialPanel,
          kpi, totalSpent, taskToUpdateSelector>>
vars == <<projects, tasks, expenses, materials, nextItem, currentProjectID,
          allProjects, projectSelector, storedProjectID, currentProjectName, details,
          taskPanel, expensePanel, materialPanel, kpi, totalSpent,
          taskToUpdateSelector, inflight, lastAlert, unhandled, events, faults>>

(***************************************************************************)
(* Helpers on sequences and numbers.                                       *)
(***************************************************************************)
Range(s) == {s[i] : i \in 1..Len(s)}

ForProject(rows, projectID) ==
    LET match(r) == r.ProjectID = projectID IN SelectSeq(rows, match)

NotForProject(rows, projectID) ==
    LET other(r) == r.ProjectID # projectID IN SelectSeq(rows, other)

RECURSIVE SumSeq(_)
SumSeq(s) == IF s = <<>> THEN 0 ELSE Head(s) + SumSeq(Tail(s))

\* x || 0 on a number: NaN and 0 are falsy
OrZero(x) == IF x = NaN THEN 0 ELSE x

\* Math.round(a / b) for a >= 0, b > 0
Round(a, b) == (2 * a + b) \div (2 * b)

One(r) == SetToBag({r})

InFlightCount == BagCardinality(inflight)

\* a request fails only while the behaviour's budget of failures lasts
Fault(outcome) ==
    /\ outcome # "ok" => faults < MaxFaults
    /\ faults' = IF outcome = "ok" THEN faults ELSE faults + 1

(***************************************************************************)
(* Rows of the sheets and contents of the page.                            *)
(***************************************************************************)
ProjectRow(id, name) == [ProjectID |-> id, Name |-> name]

NoRow == ProjectRow(NoProject, "")

TaskRow(id, taskName, status, progress, completionDate) ==
    [ProjectID |-> id, TaskName |-> taskName, Status |-> status,
     Progress |-> progress, CompletionDate |-> completionDate]

ExpenseRow(id, amount, description) ==
    [ProjectID |-> id, Amount |-> amount, Description |-> description]

MaterialRow(id, itemID, required, dispatched, balance) ==
    [ProjectID |-> id, ItemID |-> itemID, Required_Qty |-> required,
     Dispatched_Qty |-> dispatched, Balance_Qty |-> balance]

\* a panel: what it shows, the projectID argument of the loader that wrote
\* it, the rows it lists, and the outcome of the read behind it
Panel(st, pid, rows, read) == [st |-> st, pid |-> pid, rows |-> rows, read |-> read]

Tile(tag, val, pid) == [tag |-> tag, val |-> val, pid |-> pid]

NoAlert == [op |-> "none", msg |-> "none", results |-> <<>>]

Alert(op, msg, results) == [op |-> op, msg |-> msg, results |-> results]

Find(projs, projectID) ==
    LET found == ForProject(projs, projectID)
    IN IF found = <<>> THEN NoRow ELSE Head(found)

(***************************************************************************)
(* src/script.js: synchronous parts shared by the handlers.  Each takes    *)
(* the bag of suspended handlers as left by its caller.                    *)
(***************************************************************************)
clearDashboard ==
    /\ kpi' = [progress |-> Tile("pct", 0, NoProject),
               material |-> Tile("pct", 0, NoProject),
               totalExpenses |-> Tile("amount", 0, NoProject)]
    /\ details' = [mode |-> "display", project |-> NoRow]
    /\ taskPanel' = Panel("select", NoProject, <<>>, "none")
    /\ materialPanel' = Panel("select", NoProject, <<>>, "none")
    /\ expensePanel' = Panel("select", NoProject, <<>>, "none")

loadProjects_KeepSelection(infl, then) ==
    /\ projectSelector' = [options |-> <<>>, value |-> NoProject]
    /\ allProjects' = <<>>
    /\ clearDashboard
    /\ currentProjectName' = "Select a Project"
    /\ inflight' = infl (+) One([op |-> "loadProjects", then |-> then])
    /\ UNCHANGED <<currentProjectID, storedProjectID, totalSpent, taskToUpdateSelector>>

\* loadProjects up to its await
loadProjects(infl, then) ==
    /\ projectSelector' = [options |-> <<>>, value |-> NoProject]
    /\ currentProjectID' = NoProject
    /\ allProjects' = <<>>
    /\ clearDashboard
    /\ currentProjectName' = "Select a Project"
    /\ inflight' = infl (+) One([op |-> "loadProjects", then |-> then])
    /\ UNCHANGED <<storedProjectID, totalSpent, taskToUpdateSelector>>

Loaders(projectID) ==
    One([op |-> "loadTasks", pid |-> projectID, then |-> "none"])
    (+) One([op |-> "loadExpenses", pid |-> projectID])
    (+) One([op |-> "loadMaterials", pid |-> projectID])
    (+) One([op |-> "loadTasksForDropdown", pid |-> projectID])

\* the loading states the four loaders of a selection put up before their fetch
startLoaders(projectID, infl) ==
    /\ taskPanel' = Panel("loading", projectID, <<>>, "none")
    /\ expensePanel' = Panel("loading", projectID, <<>>, "none")
    /\ materialPanel' = Panel("loading", projectID, <<>>, "none")
    /\ totalSpent' = 0
    /\ taskToUpdateSelector' = {}
    /\ inflight' = infl (+) Loaders(projectID)

updateDashboard(project) ==
    /\ details' = [mode |-> "display", project |-> project]
    /\ UNCHANGED kpi

handleProjectSelection(projectID, projs, infl) ==
    /\ currentProjectID' = projectID
    /\ UNCHANGED storedProjectID
    /\ IF projectID = NoProject
       THEN /\ clearDashboard
            /\ currentProjectName' = "Select a Project"
            /\ inflight' = infl
            /\ UNCHANGED <<totalSpent, taskToUpdateSelector>>
       ELSE IF Find(projs, projectID) # NoRow
       THEN /\ currentProjectName' = Find(projs, projectID).Name
            /\ updateDashboard(Find(projs, projectID))
            /\ startLoaders(projectID, infl)
       ELSE /\ clearDashboard
            /\ currentProjectName' = "Project Not Found"
            /\ inflight' = infl
            /\ UNCHANGED <<totalSpent, taskToUpdateSelector>>

(***************************************************************************)
(* src/script.js: completion of the reads.  fetchDataFromSheet gives the   *)
(* rows ("ok"), [] after writing 'API Error!' to the header on a network   *)
(* error, a non-2xx status or an unparseable body ("fail"), or the parsed  *)
(* body as it is when it is not an array ("notarray").                     *)
(***************************************************************************)
fetchDataFromSheet(sheet, outcome) == IF outcome = "ok" THEN sheet ELSE <<>>

FetchHeader(outcome) ==
    IF outcome = "fail" THEN currentProjectName' = "API Error! Check Console."
    ELSE UNCHANGED currentProjectName

Ids(rows) == [i \in 1..Len(rows) |-> rows[i].ProjectID]

LoadProjectsDone(t, outcome) ==
    /\ t.op = "loadProjects"
    /\ Fault(outcome)
    /\ LET infl == inflight (-) One(t)
           projectsData == IF outcome = "notarray" THEN <<>>
                           ELSE fetchDataFromSheet(projects, outcome)
           withID(p) == p.ProjectID # NoProject
           projs == SelectSeq(projectsData, withID)
       IN IF Len(projectsData) > 0
          THEN /\ allProjects' = projs
               /\ IF Len(projs) > 0
                  THEN /\ projectSelector' = [options |-> Ids(projs), value |-> projs[1].ProjectID]
                       /\ IF t.then = "reselect"
                          THEN handleProjectSelection(projs[1].ProjectID, projs,
                                                      infl (+) Loaders(projs[1].ProjectID))
                          ELSE handleProjectSelection(projs[1].ProjectID, projs, infl)
                  ELSE /\ UNCHANGED projectSelector
                       /\ IF t.then = "reselect"
                          THEN handleProjectSelection(currentProjectID, projs, infl)
                          ELSE /\ inflight' = infl
                               /\ UNCHANGED <<currentProjectID, ui>>
          ELSE /\ UNCHANGED <<allProjects, projectSelector>>
               /\ IF t.then = "reselect"
                  THEN handleProjectSelection(currentProjectID, allProjects, infl)
                  ELSE /\ currentProjectName' = "No Projects Found"
                       /\ inflight' = infl
                       /\ UNCHANGED <<currentProjectID, details, taskPanel, expensePanel,
                                      materialPanel, kpi, totalSpent, taskToUpdateSelector>>
    /\ UNCHANGED <<store, storedProjectID, lastAlert, unhandled, events>>

Progress(task) == OrZero(task.Progress)

Progresses(rows) == [i \in 1..Len(rows) |-> Progress(rows[i])]

loadTasksForDropdown(projectID, infl) ==
    /\ taskToUpdateSelector' = {}
    /\ inflight' = infl (+) One([op |-> "loadTasksForDropdown", pid |-> projectID])

LoadTasksDone(t, outcome) ==
    /\ t.op = "loadTasks"
    /\ Fault(outcome)
    /\ LET projectTasks == ForProject(fetchDataFromSheet(tasks, outcome), t.pid)
       IN IF outcome = "notarray"
          THEN /\ taskPanel' = Panel("failed", t.pid, <<>>, outcome)
               /\ kpi' = [kpi EXCEPT !.progress = Tile("error", 0, t.pid)]
          ELSE IF Len(projectTasks) = 0
          THEN /\ taskPanel' = Panel("empty", t.pid, <<>>, outcome)
               /\ kpi' = [kpi EXCEPT !.progress = Tile("pct", 0, t.pid)]
          ELSE /\ taskPanel' = Panel("rows", t.pid, projectTasks, outcome)
               /\ kpi' = [kpi EXCEPT !.progress =
                              Tile("pct", Round(SumSeq(Progresses(projectTasks)),
                                                Len(projectTasks)), t.pid)]
    /\ FetchHeader(outcome)
    /\ IF t.then = "dropdown"
       THEN loadTasksForDropdown(currentProjectID, inflight (-) One(t))
       ELSE /\ inflight' = inflight (-) One(t)
            /\ UNCHANGED taskToUpdateSelector
    /\ UNCHANGED <<store, session, details, expensePanel, materialPanel, totalSpent,
                   lastAlert, unhandled, events>>

LoadTasksForDropdownDone(t, outcome) ==
    /\ t.op = "loadTasksForDropdown"
    /\ Fault(outcome)
    /\ LET projectTasksCache == ForProject(fetchDataFromSheet(tasks, outcome), t.pid)
       IN taskToUpdateSelector' =
              IF outcome = "notarray" THEN taskToUpdateSelector
              ELSE taskToUpdateSelector \cup {r.TaskName : r \in Range(projectTasksCache)}
    /\ FetchHeader(outcome)
    /\ inflight' = inflight (-) One(t)
    /\ UNCHANGED <<store, session, details, taskPanel, expensePanel, materialPanel, kpi,
                   totalSpent, lastAlert, unhandled, events>>

Amounts(rows) == [i \in 1..Len(rows) |-> OrZero(rows[i].Amount)]

Recent(rows) == SubSeq(rows, 1, IF Len(rows) < RecentCount THEN Len(rows) ELSE RecentCount)

loadExpenses(projectID, infl) ==
    /\ expensePanel' = Panel("loading", projectID, <<>>, "none")
    /\ totalSpent' = 0
    /\ inflight' = infl (+) One([op |-> "loadExpenses", pid |-> projectID])

LoadExpensesDone(t, outcome) ==
    /\ t.op = "loadExpenses"
    /\ Fault(outcome)
    /\ LET projectExpenses == ForProject(fetchDataFromSheet(expenses, outcome), t.pid)
           total == totalSpent + SumSeq(Amounts(Recent(projectExpenses)))
       IN IF outcome = "notarray"
          THEN /\ expensePanel' = Panel("failed", t.pid, <<>>, outcome)
               /\ kpi' = [kpi EXCEPT !.totalExpenses = Tile("error", 0, t.pid)]
               /\ UNCHANGED totalSpent
          ELSE /\ expensePanel' = Panel(IF Len(projectExpenses) = 0 THEN "empty" ELSE "rows",
                                        t.pid, Recent(projectExpenses), outcome)
               /\ totalSpent' = total
               /\ kpi' = [kpi EXCEPT !.totalExpenses = Tile("amount", total, t.pid)]
    /\ FetchHeader(outcome)
    /\ inflight' = inflight (-) One(t)
    /\ UNCHANGED <<store, session, details, taskPanel, materialPanel, taskToUpdateSelector,
                   lastAlert, unhandled, events>>

\* a row of the material table: required, dispatched and the balance shown
MaterialLine(m) ==
    [ItemID |-> m.ItemID, required |-> OrZero(m.Required_Qty),
     dispatched |-> OrZero(m.Dispatched_Qty),
     balance |-> IF OrZero(m.Balance_Qty) # 0 THEN m.Balance_Qty
                 ELSE OrZero(m.Required_Qty) - OrZero(m.Dispatched_Qty)]

MaterialLines(rows) == [i \in 1..Len(rows) |-> MaterialLine(rows[i])]

Required(lines) == [i \in 1..Len(lines) |-> lines[i].required]

Dispatched(lines) == [i \in 1..Len(lines) |-> lines[i].dispatched]

loadMaterials(projectID, infl) ==
    /\ materialPanel' = Panel("loading", projectID, <<>>, "none")
    /\ inflight' = infl (+) One([op |-> "loadMaterials", pid |-> projectID])

LoadMaterialsDone(t, outcome) ==
    /\ t.op = "loadMaterials"
    /\ Fault(outcome)
    /\ LET projectMaterials == ForProject(fetchDataFromSheet(materials, outcome), t.pid)
           lines == MaterialLines(projectMaterials)
           totalRequired == SumSeq(Required(lines))
           totalDispatched == SumSeq(Dispatched(lines))
       IN IF outcome = "notarray"
          THEN /\ materialPanel' = Panel("failed", t.pid, <<>>, outcome)
               /\ kpi' = [kpi EXCEPT !.material = Tile("error", 0, t.pid)]
          ELSE IF Len(projectMaterials) = 0
          THEN /\ materialPanel' = Panel("empty", t.pid, <<>>, outcome)
               /\ kpi' = [kpi EXCEPT !.material = Tile("pct", 0, t.pid)]
          ELSE /\ materialPanel' = Panel("rows", t.pid, lines, outcome)
               /\ kpi' = [kpi EXCEPT !.material =
                              Tile("pct", IF totalRequired > 0
                                          THEN Round(100 * totalDispatched, totalRequired)
                                          ELSE 0, t.pid)]
    /\ FetchHeader(outcome)
    /\ inflight' = inflight (-) One(t)
    /\ UNCHANGED <<store, session, details, taskPanel, expensePanel, totalSpent,
                   taskToUpdateSelector, lastAlert, unhandled, events>>

(***************************************************************************)
(* src/script.js: user events.                                             *)
(***************************************************************************)
UserMayAct ==
    /\ events < MaxEvents
    /\ InFlightCount <= MaxPending

ProjectSelectorChange(projectID) ==
    /\ UserMayAct
    /\ projectID \in Range(projectSelector.options) \cup {NoProject}
    /\ projectSelector' = [projectSelector EXCEPT !.value = projectID]
    /\ handleProjectSelection(projectID, allProjects, inflight)
    /\ events' = events + 1
    /\ UNCHANGED faults
    /\ UNCHANGED <<store, allProjects, lastAlert, unhandled>>

ExpenseSubmit_Unguarded(expenseAmount, expenseDescription) ==
    /\ UserMayAct
    /\ events' = events + 1
    /\ inflight' = inflight (+) One([op |-> "expense",
            payload |-> ExpenseRow(currentProjectID, expenseAmount, expenseDescription)])
    /\ UNCHANGED <<store, session, ui, lastAlert, unhandled, faults>>

\* expenseEntryForm submit
ExpenseSubmit(expenseAmount, expenseDescription) ==
    /\ UserMayAct
    /\ events' = events + 1
    /\ UNCHANGED faults
    /\ IF currentProjectID = NoProject
       THEN /\ lastAlert' = Alert("expense", "select a project", <<>>)
            /\ UNCHANGED inflight
       ELSE /\ inflight' = inflight (+) One([op |-> "expense",
                    payload |-> ExpenseRow(currentProjectID, expenseAmount, expenseDescription)])
            /\ UNCHANGED lastAlert
    /\ UNCHANGED <<store, session, ui, unhandled>>

ExpenseDone(t, w) ==
    /\ t.op = "expense"
    /\ Fault(w)
    /\ IF w = "ok"
       THEN /\ expenses' = Append(expenses, t.payload)
            /\ lastAlert' = Alert("expense", "success", <<w>>)
            /\ loadExpenses(currentProjectID, inflight (-) One(t))
       ELSE /\ lastAlert' = Alert("expense", "failure", <<w>>)
            /\ inflight' = inflight (-) One(t)
            /\ UNCHANGED <<expenses, expensePanel, totalSpent>>
    /\ UNCHANGED <<projects, tasks, materials, nextItem, session, currentProjectName, details,
                   taskPanel, materialPanel, kpi, taskToUpdateSelector, unhandled, events>>

\* the store's update of the rows a PUT addresses: the fields sent, no others
PatchTask(row, progress, status) == [row EXCEPT !.Progress = progress, !.Status = status]

PutTasks(rows, projectID, taskName, progress, status) ==
    [i \in 1..Len(rows) |->
        IF rows[i].ProjectID = projectID /\ rows[i].TaskName = taskName
        THEN PatchTask(rows[i], progress, status) ELSE rows[i]]

loadTasks(projectID, infl, then) ==
    /\ taskPanel' = Panel("loading", projectID, <<>>, "none")
    /\ inflight' = infl (+) One([op |-> "loadTasks", pid |-> projectID, then |-> then])

UpdateTaskSubmit(selectedTaskName, newProgress, newStatus) ==
    /\ UserMayAct
    /\ events' = events + 1
    /\ UNCHANGED faults
    /\ selectedTaskName \in taskToUpdateSelector \cup {0}
    /\ IF currentProjectID = NoProject \/ selectedTaskName = 0
       THEN /\ lastAlert' = Alert("updateTask", "select a project and a task", <<>>)
            /\ UNCHANGED inflight
       ELSE /\ inflight' = inflight (+) One([op |-> "updateTask", pid |-> currentProjectID,
                    taskName |-> selectedTaskName, progress |-> newProgress,
                    status |-> newStatus])
            /\ UNCHANGED lastAlert
    /\ UNCHANGED <<store, session, ui, unhandled>>

UpdateTaskDone(t, w) ==
    /\ t.op = "updateTask"
    /\ Fault(w)
    /\ IF w = "ok"
       THEN /\ tasks' = PutTasks(tasks, t.pid, t.taskName, t.progress, t.status)
            /\ lastAlert' = Alert("updateTask", "success", <<w>>)
            /\ loadTasks(currentProjectID, inflight (-) One(t), "dropdown")
       ELSE /\ lastAlert' = Alert("updateTask", "failure", <<w>>)
            /\ inflight' = inflight (-) One(t)
            /\ UNCHANGED <<tasks, taskPanel>>
    /\ UNCHANGED <<projects, expenses, materials, nextItem, session, currentProjectName,
                   details, expensePanel, materialPanel, kpi, totalSpent,
                   taskToUpdateSelector, unhandled, events>>

PutMaterials(rows, itemID, dispatchQuantity) ==
    [i \in 1..Len(rows) |->
        IF rows[i].ItemID = itemID
        THEN [rows[i] EXCEPT !.Dispatched_Qty = dispatchQuantity] ELSE rows[i]]

ItemIDs == {m.ItemID : m \in Range(materials)}

RecordDispatchSubmit(materialItemId, newMaterialName, requiredQuantity, dispatchQuantity, materialUnit) ==
    /\ UserMayAct
    /\ events' = events + 1
    /\ UNCHANGED faults
    /\ materialItemId \in ItemIDs \cup {0}
    /\ IF currentProjectID = NoProject
       THEN /\ lastAlert' = Alert("dispatch", "select a project", <<>>)
            /\ UNCHANGED <<inflight, nextItem>>
       ELSE IF materialItemId # 0
       THEN /\ inflight' = inflight (+) One([op |-> "dispatch", method |-> "PUT",
                    itemID |-> materialItemId, Dispatched_Qty |-> OrZero(dispatchQuantity)])
            /\ UNCHANGED <<lastAlert, nextItem>>
       ELSE IF newMaterialName # "" /\ materialUnit # ""
       THEN /\ inflight' = inflight (+) One([op |-> "dispatch", method |-> "POST",
                    payload |-> MaterialRow(currentProjectID, nextItem,
                        OrZero(requiredQuantity), OrZero(dispatchQuantity),
                        OrZero(requiredQuantity) - OrZero(dispatchQuantity))])
            /\ nextItem' = nextItem + 1
            /\ UNCHANGED lastAlert
       ELSE /\ lastAlert' = Alert("dispatch", "enter an id or a name and unit", <<>>)
            /\ UNCHANGED <<inflight, nextItem>>
    /\ UNCHANGED <<projects, tasks, expenses, materials, session, ui, unhandled>>

RecordDispatchDone(t, w) ==
    /\ t.op = "dispatch"
    /\ Fault(w)
    /\ IF w = "ok"
       THEN /\ materials' = IF t.method = "PUT"
                            THEN PutMaterials(materials, t.itemID, t.Dispatched_Qty)
                            ELSE Append(materials, t.payload)
            /\ lastAlert' = Alert("dispatch", "success", <<w>>)
            /\ loadMaterials(currentProjectID, inflight (-) One(t))
       ELSE /\ lastAlert' = Alert("dispatch", "failure", <<w>>)
            /\ inflight' = inflight (-) One(t)
            /\ UNCHANGED <<materials, materialPanel>>
    /\ UNCHANGED <<projects, tasks, expenses, nextItem, session, currentProjectName, details,
                   taskPanel, expensePanel, kpi, totalSpent, taskToUpdateSelector,
                   unhandled, events>>

(***************************************************************************)
(* src/script.js: add, delete and edit of a project.  A project identifier *)
(* HT-<n> is the number n.                                                 *)
(***************************************************************************)
Max(S) == CHOOSE m \in S : \A x \in S : x <= m

generateNewID(projs) == Max({p.ProjectID : p \in Range(projs)} \cup {0}) + 1

tasksPayload(newID) ==
    [i \in 1..NumTasks |-> TaskRow(newID, HI_TEK_TASKS_MAP[i], "Pending", 0, "")]

AddProjectClick(newName) ==
    /\ UserMayAct
    /\ events' = events + 1
    /\ UNCHANGED faults
    /\ IF newName = ""
       THEN UNCHANGED inflight
       ELSE inflight' = inflight (+) One([op |-> "addProject",
                newID |-> generateNewID(allProjects), name |-> newName,
                projectResult |-> "pending", taskResult |-> "pending"])
    /\ UNCHANGED <<store, session, ui, lastAlert, unhandled>>

\* sendDataToSheet: every failure becomes the status 'error'
sendDataToSheet(w) == IF w = "ok" THEN "success" ELSE "error"

AddProjectFinish(t, infl) ==
    /\ lastAlert' = Alert("addProject",
           IF t.projectResult = "success" /\ t.taskResult = "success"
           THEN "success" ELSE "failure", <<t.projectResult, t.taskResult>>)
    /\ loadProjects(infl, "none")

AddProjectPosted(t, sheet, w) ==
    /\ t.op = "addProject"
    /\ Fault(w)
    /\ LET t2 == IF sheet = "Projects"
                 THEN [t EXCEPT !.projectResult = sendDataToSheet(w)]
                 ELSE [t EXCEPT !.taskResult = sendDataToSheet(w)]
       IN /\ IF sheet = "Projects"
             THEN /\ t.projectResult = "pending"
                  /\ projects' = IF w = "ok"
                                 THEN Append(projects, ProjectRow(t.newID, t.name))
                                 ELSE projects
                  /\ UNCHANGED tasks
             ELSE /\ t.taskResult = "pending"
                  /\ tasks' = IF w = "ok" THEN tasks \o tasksPayload(t.newID) ELSE tasks
                  /\ UNCHANGED projects
          /\ IF t2.projectResult # "pending" /\ t2.taskResult # "pending"
             THEN AddProjectFinish(t2, inflight (-) One(t))
             ELSE /\ inflight' = (inflight (-) One(t)) (+) One(t2)
                  /\ UNCHANGED <<session, ui, lastAlert>>
    /\ UNCHANGED <<expenses, materials, nextItem, unhandled, events>>

Sheets == {"Projects", "Tasks", "Expenses", "Materials"}

DeleteProjectClick ==
    /\ UserMayAct
    /\ events' = events + 1
    /\ UNCHANGED faults
    /\ IF currentProjectID = NoProject
       THEN /\ lastAlert' = Alert("deleteProject", "no project selected", <<>>)
            /\ UNCHANGED <<inflight, unhandled>>
       ELSE IF Find(allProjects, currentProjectID) = NoRow
       THEN /\ unhandled' = TRUE
            /\ UNCHANGED <<inflight, lastAlert>>
       ELSE /\ inflight' = inflight (+) One([op |-> "deleteProject", pid |-> currentProjectID,
                    res |-> [sh \in Sheets |-> "pending"]])
            /\ UNCHANGED <<lastAlert, unhandled>>
    /\ UNCHANGED <<store, session, ui>>

\* the outcome of one DELETE: {deleted: n} of a 2xx answer, the status otherwise
DeleteResult(rows, projectID, w) ==
    IF w # "ok" THEN w
    ELSE IF Len(ForProject(rows, projectID)) > 0 THEN "deleted" ELSE "deleted0"

\* a DELETE that drops the filter on ProjectID
DeleteRows_All(rows, projectID, w) == IF w = "ok" THEN <<>> ELSE rows

DeleteRows(rows, projectID, w) == IF w = "ok" THEN NotForProject(rows, projectID) ELSE rows

\* Promise.all over the four fetches rejects when one of them does, and the
\* handler catches nothing
DeleteProjectFinish(t, infl) ==
    IF \E sh \in Sheets : t.res[sh] = "neterr"
    THEN /\ inflight' = infl
         /\ UNCHANGED <<session, ui, lastAlert>>
    ELSE IF t.res["Projects"] = "deleted"
    THEN /\ lastAlert' = Alert("deleteProject", "success", t.res)
         /\ loadProjects(infl, "none")
    ELSE /\ lastAlert' = Alert("deleteProject", "failure", t.res)
         /\ inflight' = infl
         /\ UNCHANGED <<session, ui>>

DeleteRequestDone(t, sheet, w) ==
    /\ t.op = "deleteProject"
    /\ Fault(w)
    /\ t.res[sheet] = "pending"
    /\ LET rows == CASE sheet = "Projects" -> projects
                     [] sheet = "Tasks" -> tasks
                     [] sheet = "Expenses" -> expenses
                     [] OTHER -> materials
           t2 == [t EXCEPT !.res[sheet] = DeleteResult(rows, t.pid, w)]
       IN /\ projects' = IF sheet = "Projects" THEN DeleteRows(projects, t.pid, w) ELSE projects
          /\ tasks' = IF sheet = "Tasks" THEN DeleteRows(tasks, t.pid, w) ELSE tasks
          /\ expenses' = IF sheet = "Expenses" THEN DeleteRows(expenses, t.pid, w) ELSE expenses
          /\ materials' = IF sheet = "Materials" THEN DeleteRows(materials, t.pid, w)
                          ELSE materials
          /\ IF \A sh \in Sheets : t2.res[sh] # "pending"
             THEN DeleteProjectFinish(t2, inflight (-) One(t))
             ELSE /\ inflight' = (inflight (-) One(t)) (+) One(t2)
                  /\ UNCHANGED <<session, ui, lastAlert>>
    /\ unhandled' = (unhandled \/ w = "neterr")
    /\ UNCHANGED <<nextItem, events>>

EditProjectDetailsClick ==
    /\ UserMayAct
    /\ events' = events + 1
    /\ UNCHANGED faults
    /\ IF currentProjectID = NoProject
       THEN /\ lastAlert' = Alert("edit", "select a project", <<>>)
            /\ UNCHANGED details
       ELSE /\ details' = IF Find(allProjects, currentProjectID) = NoRow THEN details
                          ELSE [details EXCEPT !.mode = "edit"]
            /\ UNCHANGED lastAlert
    /\ UNCHANGED <<store, session, currentProjectName, taskPanel, expensePanel, materialPanel,
                   kpi, totalSpent, taskToUpdateSelector, inflight, unhandled>>

PutProjects(rows, projectID, newName) ==
    [i \in 1..Len(rows) |->
        IF rows[i].ProjectID = projectID THEN [rows[i] EXCEPT !.Name = newName] ELSE rows[i]]

SaveProjectDetailsClick(newName) ==
    /\ UserMayAct
    /\ events' = events + 1
    /\ UNCHANGED faults
    /\ IF currentProjectID = NoProject
       THEN UNCHANGED inflight
       ELSE inflight' = inflight (+) One([op |-> "saveDetails", pid |-> currentProjectID,
                                          name |-> newName])
    /\ UNCHANGED <<store, session, ui, lastAlert, unhandled>>

SaveProjectDetailsDone(t, w) ==
    /\ t.op = "saveDetails"
    /\ Fault(w)
    /\ IF w = "ok"
       THEN /\ projects' = PutProjects(projects, t.pid, t.name)
            /\ lastAlert' = Alert("saveDetails", "success", <<w>>)
            /\ loadProjects(inflight (-) One(t), "reselect")
       ELSE /\ lastAlert' = Alert("saveDetails", "failure", <<w>>)
            /\ inflight' = inflight (-) One(t)
            /\ UNCHANGED <<projects, session, ui>>
    /\ UNCHANGED <<tasks, expenses, materials, nextItem, unhandled, events>>

(***************************************************************************)
(* The sheets a session starts on, and the page after DOMContentLoaded has *)
(* run the synchronous part of loadProjects.                               *)
(***************************************************************************)
SeedTasks(ids) ==
    IF ids = <<>> THEN <<>>
    ELSE tasksPayload(ids[1]) \o (IF Len(ids) > 1 THEN tasksPayload(ids[2]) ELSE <<>>)

InitialSheets ==
    { [p |-> <<>>, e |-> <<>>, m |-> <<>>],
      [p |-> <<ProjectRow(1, "a")>>,
       e |-> <<ExpenseRow(1, 1, "d")>>,
       m |-> <<MaterialRow(1, 1, 2, 1, 1)>>],
      [p |-> <<ProjectRow(1, "a"), ProjectRow(2, "b")>>,
       e |-> <<ExpenseRow(1, 1, "d"), ExpenseRow(2, 2, "d")>>,
       m |-> <<MaterialRow(1, 1, 2, 1, 1)>>] }

PageInit ==
    /\ currentProjectID = NoProject
    /\ allProjects = <<>>
    /\ projectSelector = [options |-> <<>>, value |-> NoProject]
    /\ currentProjectName = "Select a Project"
    /\ details = [mode |-> "display", project |-> NoRow]
    /\ taskPanel = Panel("select", NoProject, <<>>, "none")
    /\ expensePanel = Panel("select", NoProject, <<>>, "none")
    /\ materialPanel = Panel("select", NoProject, <<>>, "none")
    /\ kpi = [progress |-> Tile("pct", 0, NoProject),
              material |-> Tile("pct", 0, NoProject),
              totalExpenses |-> Tile("amount", 0, NoProject)]
    /\ storedProjectID = NoProject
    /\ totalSpent = 0
    /\ taskToUpdateSelector = {}
    /\ lastAlert = NoAlert
    /\ unhandled = FALSE
    /\ events = 0
    /\ faults = 0

Init ==
    /\ \E sh \in InitialSheets :
          /\ projects = sh.p
          /\ tasks = SeedTasks(Ids(sh.p))
          /\ expenses = sh.e
          /\ materials = sh.m
    /\ nextItem = 2
    /\ PageInit
    /\ inflight = One([op |-> "loadProjects", then |-> "none"])

InFlight == BagToSet(inflight)

Next ==
    \/ \E t \in InFlight, outcome \in FetchOutcomes : LoadProjectsDone(t, outcome)
    \/ \E t \in InFlight, outcome \in FetchOutcomes : LoadTasksDone(t, outcome)
    \/ \E t \in InFlight, outcome \in FetchOutcomes : LoadTasksForDropdownDone(t, outcome)
    \/ \E t \in InFlight, outcome \in FetchOutcomes : LoadExpensesDone(t, outcome)
    \/ \E t \in InFlight, outcome \in FetchOutcomes : LoadMaterialsDone(t, outcome)
    \/ \E projectID \in 0..(MaxEvents + 2) : ProjectSelectorChange(projectID)
    \/ \E a \in AmountInputs, d \in {"", "d"} : ExpenseSubmit(a, d)
    \/ \E t \in InFlight, w \in WriteOutcomes : ExpenseDone(t, w)
    \/ \E n \in 0..NumTasks, pr \in ProgressInputs, st \in Statuses :
           UpdateTaskSubmit(n, pr, st)
    \/ \E t \in InFlight, w \in WriteOutcomes : UpdateTaskDone(t, w)
    \/ \E i \in ItemIDs \cup {0}, n \in {"", "m"}, r \in Quantities, q \in Quantities,
          u \in {"", "u"} : RecordDispatchSubmit(i, n, r, q, u)
    \/ \E t \in InFlight, w \in WriteOutcomes : RecordDispatchDone(t, w)
    \/ \E n \in ProjectNames \cup {""} : AddProjectClick(n)
    \/ \E t \in InFlight, sh \in {"Projects", "Tasks"}, w \in WriteOutcomes :
           AddProjectPosted(t, sh, w)
    \/ DeleteProjectClick
    \/ \E t \in InFlight, sh \in Sheets, w \in WriteOutcomes : DeleteRequestDone(t, sh, w)
    \/ EditProjectDetailsClick
    \/ \E n \in ProjectNames : SaveProjectDetailsClick(n)
    \/ \E t \in InFlight, w \in WriteOutcomes : SaveProjectDetailsDone(t, w)

Spec == Init /\ [][Next]_vars

(***************************************************************************)
(* src/unnamed/part_001: the Apps Script fetch variant.  It has the three  *)
(* loaders, the expense form and add project; delete only points the user  *)
(* to the spreadsheet.  fetchDataFromSheet reports a failed read by        *)
(* writing into #recentExpensesList, whichever sheet was read.             *)
(***************************************************************************)
AS_clearDashboard ==
    /\ kpi' = [progress |-> Tile("na", 0, NoProject),
               material |-> kpi.material,
               totalExpenses |-> Tile("na", 0, NoProject)]
    /\ details' = [mode |-> "display", project |-> NoRow]
    /\ taskPanel' = Panel("select", NoProject, <<>>, "none")
    /\ expensePanel' = Panel("select", NoProject, <<>>, "none")
    /\ materialPanel' = Panel("select", NoProject, <<>>, "none")

AS_loadProjects(infl) ==
    /\ projectSelector' = [options |-> <<>>, value |-> NoProject]
    /\ currentProjectID' = NoProject
    /\ allProjects' = <<>>
    /\ AS_clearDashboard
    /\ currentProjectName' = "Select a Project"
    /\ inflight' = infl (+) One([op |-> "loadProjects", then |-> "none"])
    /\ UNCHANGED <<storedProjectID, totalSpent, taskToUpdateSelector>>

AS_Loaders(projectID) ==
    One([op |-> "loadTasks", pid |-> projectID, then |-> "none"])
    (+) One([op |-> "loadExpenses", pid |-> projectID])
    (+) One([op |-> "loadMaterials", pid |-> projectID])

AS_updateDashboard(project) ==
    /\ details' = [mode |-> "display", project |-> project]
    /\ UNCHANGED kpi

AS_handleProjectSelection(projectID, projs, infl) ==
    /\ currentProjectID' = projectID
    /\ UNCHANGED storedProjectID
    /\ IF projectID = NoProject
       THEN /\ AS_clearDashboard
            /\ currentProjectName' = "Select a Project"
            /\ inflight' = infl
            /\ UNCHANGED totalSpent
       ELSE IF Find(projs, projectID) # NoRow
       THEN /\ currentProjectName' = Find(projs, projectID).Name
            /\ AS_updateDashboard(Find(projs, projectID))
            /\ taskPanel' = Panel("loading", projectID, <<>>, "none")
            /\ expensePanel' = Panel("loading", projectID, <<>>, "none")
            /\ materialPanel' = Panel("loading", projectID, <<>>, "none")
            /\ totalSpent' = 0
            /\ inflight' = infl (+) AS_Loaders(projectID)
       ELSE /\ AS_clearDashboard
            /\ currentProjectName' = "Project Not Found"
            /\ inflight' = infl
            /\ UNCHANGED totalSpent
    /\ UNCHANGED taskToUpdateSelector

\* the rows, or [] after the catch branch has written its message
AS_fetchDataFromSheet(sheet, outcome) == IF outcome = "ok" THEN sheet ELSE <<>>

\* the message of the catch branch, as the expense list shows it
AS_FetchError(projectID) == Panel("apierror", projectID, <<>>, "fail")

AS_LoadProjectsDone(t, outcome) ==
    /\ t.op = "loadProjects"
    /\ Fault(outcome)
    /\ LET infl == inflight (-) One(t)
           projectsData == IF outcome = "notarray" THEN <<>>
                           ELSE AS_fetchDataFromSheet(projects, outcome)
           withID(p) == p.ProjectID # NoProject
           projs == SelectSeq(projectsData, withID)
       IN IF Len(projectsData) > 0
          THEN /\ allProjects' = projs
               /\ IF Len(projs) > 0
                  THEN /\ projectSelector' = [options |-> Ids(projs),
                                              value |-> projs[1].ProjectID]
                       /\ AS_handleProjectSelection(projs[1].ProjectID, projs, infl)
                  ELSE /\ inflight' = infl
                       /\ UNCHANGED <<projectSelector, currentProjectID, ui>>
          ELSE /\ currentProjectName' = "No Projects Found"
               /\ expensePanel' = IF outcome = "fail" THEN AS_FetchError(NoProject)
                                  ELSE expensePanel
               /\ inflight' = infl
               /\ UNCHANGED <<allProjects, projectSelector, currentProjectID, details,
                              taskPanel, materialPanel, kpi, totalSpent,
                              taskToUpdateSelector>>
    /\ UNCHANGED <<store, storedProjectID, lastAlert, unhandled, events>>

AS_isCompleted(task) == task.Status \in {"Completed", "Done"}

AS_LoadTasksDone(t, outcome) ==
    /\ t.op = "loadTasks"
    /\ Fault(outcome)
    /\ LET projectTasks == ForProject(AS_fetchDataFromSheet(tasks, outcome), t.pid)
           completedTasks == Len(SelectSeq(projectTasks, AS_isCompleted))
       IN IF outcome = "notarray"
          THEN /\ taskPanel' = Panel("failed", t.pid, <<>>, outcome)
               /\ kpi' = [kpi EXCEPT !.progress = Tile("error", 0, t.pid)]
          ELSE IF Len(projectTasks) = 0
          THEN /\ taskPanel' = Panel("empty", t.pid, <<>>, outcome)
               /\ kpi' = [kpi EXCEPT !.progress = Tile("notasks", 0, t.pid)]
          ELSE /\ taskPanel' = Panel("rows", t.pid, projectTasks, outcome)
               /\ kpi' = [kpi EXCEPT !.progress =
                              Tile("pct", Round(100 * completedTasks, Len(projectTasks)),
                                   t.pid)]
    /\ expensePanel' = IF outcome = "fail" THEN AS_FetchError(t.pid) ELSE expensePanel
    /\ inflight' = inflight (-) One(t)
    /\ UNCHANGED <<store, session, currentProjectName, details, materialPanel, totalSpent,
                   taskToUpdateSelector, lastAlert, unhandled, events>>

AS_loadExpenses(projectID, infl) ==
    /\ expensePanel' = Panel("loading", projectID, <<>>, "none")
    /\ totalSpent' = 0
    /\ inflight' = infl (+) One([op |-> "loadExpenses", pid |-> projectID])

\* the list is filled and totalSpent summed before the project is looked up
\* for its budget; a project that allProjects does not hold makes the lookup
\* throw and the catch branch replaces the list
AS_LoadExpensesDone(t, outcome) ==
    /\ t.op = "loadExpenses"
    /\ Fault(outcome)
    /\ LET projectExpenses == ForProject(AS_fetchDataFromSheet(expenses, outcome), t.pid)
           total == totalSpent + SumSeq(Amounts(projectExpenses))
       IN IF outcome = "notarray"
          THEN /\ expensePanel' = Panel("failed", t.pid, <<>>, outcome)
               /\ UNCHANGED <<totalSpent, kpi>>
          ELSE IF Find(allProjects, t.pid) = NoRow
          THEN /\ expensePanel' = Panel("failed", t.pid, <<>>, outcome)
               /\ totalSpent' = total
               /\ UNCHANGED kpi
          ELSE /\ expensePanel' = Panel(IF Len(projectExpenses) = 0 THEN "empty" ELSE "rows",
                                        t.pid, projectExpenses, outcome)
               /\ totalSpent' = total
               /\ kpi' = [kpi EXCEPT !.totalExpenses = Tile("amount", total, t.pid)]
    /\ inflight' = inflight (-) One(t)
    /\ UNCHANGED <<store, session, currentProjectName, details, taskPanel, materialPanel,
                   taskToUpdateSelector, lastAlert, unhandled, events>>

AS_LoadMaterialsDone(t, outcome) ==
    /\ t.op = "loadMaterials"
    /\ Fault(outcome)
    /\ LET projectMaterials == ForProject(AS_fetchDataFromSheet(materials, outcome), t.pid)
       IN materialPanel' =
              IF outcome = "notarray" THEN Panel("failed", t.pid, <<>>, outcome)
              ELSE IF Len(projectMaterials) = 0 THEN Panel("empty", t.pid, <<>>, outcome)
              ELSE Panel("rows", t.pid, projectMaterials, outcome)
    /\ expensePanel' = IF outcome = "fail" THEN AS_FetchError(t.pid) ELSE expensePanel
    /\ inflight' = inflight (-) One(t)
    /\ UNCHANGED <<store, session, currentProjectName, details, taskPanel, kpi, totalSpent,
                   taskToUpdateSelector, lastAlert, unhandled, events>>

AS_ProjectSelectorChange(projectID) ==
    /\ UserMayAct
    /\ projectID \in Range(projectSelector.options) \cup {NoProject}
    /\ projectSelector' = [projectSelector EXCEPT !.value = projectID]
    /\ AS_handleProjectSelection(projectID, allProjects, inflight)
    /\ events' = events + 1
    /\ UNCHANGED <<store, allProjects, lastAlert, unhandled, faults>>

AS_ExpenseSubmit(expenseAmount, expenseDescription) ==
    /\ UserMayAct
    /\ events' = events + 1
    /\ IF currentProjectID = NoProject
       THEN /\ lastAlert' = Alert("expense", "select a project", <<>>)
            /\ UNCHANGED inflight
       ELSE /\ inflight' = inflight (+) One([op |-> "expense",
                    payload |-> ExpenseRow(currentProjectID, expenseAmount, expenseDescription)])
            /\ UNCHANGED lastAlert
    /\ UNCHANGED <<store, session, ui, unhandled, faults>>

\* postDataToSheet: every failure becomes the status 'error'
AS_postDataToSheet(w) == IF w = "ok" THEN "success" ELSE "error"

\* the expenses are reloaded whether the POST succeeded or not
AS_ExpenseDone(t, w) ==
    /\ t.op = "expense"
    /\ Fault(w)
    /\ expenses' = IF w = "ok" THEN Append(expenses, t.payload) ELSE expenses
    /\ lastAlert' = Alert("expense", IF AS_postDataToSheet(w) = "success" THEN "success"
                                     ELSE "failure", <<w>>)
    /\ AS_loadExpenses(currentProjectID, inflight (-) One(t))
    /\ UNCHANGED <<projects, tasks, materials, nextItem, session, currentProjectName, details,
                   taskPanel, materialPanel, kpi, taskToUpdateSelector, unhandled, events>>

AS_generateNewID(projs) == Max({p.ProjectID : p \in Range(projs)} \cup {0}) + 1

\* the rows of part_001 carry no Progress; no code of the variant reads one
AS_tasksPayload(newID) ==
    [i \in 1..NumTasks |-> TaskRow(newID, HI_TEK_TASKS_MAP[i], "Pending", 0, "")]

AS_AddProjectClick(newName) ==
    /\ UserMayAct
    /\ events' = events + 1
    /\ IF newName = ""
       THEN UNCHANGED inflight
       ELSE inflight' = inflight (+) One([op |-> "addProject",
                newID |-> AS_generateNewID(allProjects), name |-> newName,
                projectResult |-> "pending", taskResult |-> "pending"])
    /\ UNCHANGED <<store, session, ui, lastAlert, unhandled, faults>>

\* the POST to Projects, and after its answer the POST to Tasks, whatever
\* the first answer was
AS_AddProjectPosted(t, w) ==
    /\ t.op = "addProject"
    /\ Fault(w)
    /\ IF t.projectResult = "pending"
       THEN /\ projects' = IF w = "ok" THEN Append(projects, ProjectRow(t.newID, t.name))
                           ELSE projects
            /\ inflight' = (inflight (-) One(t))
                           (+) One([t EXCEPT !.projectResult = AS_postDataToSheet(w)])
            /\ UNCHANGED <<tasks, session, ui, lastAlert>>
       ELSE /\ tasks' = IF w = "ok" THEN tasks \o AS_tasksPayload(t.newID) ELSE tasks
            /\ lastAlert' = Alert("addProject",
                   IF t.projectResult = "success" /\ AS_postDataToSheet(w) = "success"
                   THEN "success" ELSE "failure",
                   <<t.projectResult, AS_postDataToSheet(w)>>)
            /\ AS_loadProjects(inflight (-) One(t))
            /\ UNCHANGED projects
    /\ UNCHANGED <<expenses, materials, nextItem, unhandled, events>>

\* deletion is left to the user; the handler is synchronous, and reading
\* the name of a project that allProjects does not hold throws
AS_DeleteProjectClick ==
    /\ UserMayAct
    /\ events' = events + 1
    /\ IF currentProjectID = NoProject
       THEN /\ lastAlert' = Alert("deleteProject", "no project selected", <<>>)
            /\ UNCHANGED unhandled
       ELSE IF Find(allProjects, currentProjectID) = NoRow
       THEN /\ unhandled' = TRUE
            /\ UNCHANGED lastAlert
       ELSE /\ lastAlert' = Alert("deleteProject", "delete manually", <<>>)
            /\ UNCHANGED unhandled
    /\ UNCHANGED <<store, session, ui, inflight, faults>>

AS_PageInit ==
    /\ currentProjectID = NoProject
    /\ allProjects = <<>>
    /\ projectSelector = [options |-> <<>>, value |-> NoProject]
    /\ currentProjectName = "Select a Project"
    /\ details = [mode |-> "display", project |-> NoRow]
    /\ taskPanel = Panel("select", NoProject, <<>>, "none")
    /\ expensePanel = Panel("select", NoProject, <<>>, "none")
    /\ materialPanel = Panel("select", NoProject, <<>>, "none")
    /\ kpi = [progress |-> Tile("na", 0, NoProject),
              material |-> Tile("na", 0, NoProject),
              totalExpenses |-> Tile("na", 0, NoProject)]
    /\ storedProjectID = NoProject
    /\ totalSpent = 0
    /\ taskToUpdateSelector = {}
    /\ lastAlert = NoAlert
    /\ unhandled = FALSE
    /\ events = 0
    /\ faults = 0

AS_Init ==
    /\ \E sh \in InitialSheets :
          /\ projects = sh.p
          /\ tasks = SeedTasks(Ids(sh.p))
          /\ expenses = sh.e
          /\ materials = sh.m
    /\ nextItem = 2
    /\ AS_PageInit
    /\ inflight = One([op |-> "loadProjects", then |-> "none"])

AS_Next ==
    \/ \E t \in InFlight, outcome \in FetchOutcomes : AS_LoadProjectsDone(t, outcome)
    \/ \E t \in InFlight, outcome \in FetchOutcomes : AS_LoadTasksDone(t, outcome)
    \/ \E t \in InFlight, outcome \in FetchOutcomes : AS_LoadExpensesDone(t, outcome)
    \/ \E t \in InFlight, outcome \in FetchOutcomes : AS_LoadMaterialsDone(t, outcome)
    \/ \E projectID \in 0..(MaxEvents + 2) : AS_ProjectSelectorChange(projectID)
    \/ \E a \in AmountInputs, d \in {"", "d"} : AS_ExpenseSubmit(a, d)
    \/ \E t \in InFlight, w \in WriteOutcomes : AS_ExpenseDone(t, w)
    \/ \E n \in ProjectNames \cup {""} : AS_AddProjectClick(n)
    \/ \E t \in InFlight, w \in WriteOutcomes : AS_AddProjectPosted(t, w)
    \/ AS_DeleteProjectClick

SpecAS == AS_Init /\ [][AS_Next]_vars

(***************************************************************************)
(* src/unnamed/part_000: the Apps Script iframe variant.  Every request is *)
(* a form posted into a hidden iframe.  A read resolves with the data or   *)
(* with [] on any error; a write resolves with success when the answer     *)
(* holds 'success_callback' or cannot be read, and rejects otherwise.      *)
(* The store filters the rows of a read by the projectID sent.             *)
(* Field names of the variant map to the rows of this model: Name of a     *)
(* task is TaskName, ItemName is ItemID, RequiredQty and DispatchedQty are *)
(* Required_Qty and Dispatched_Qty.                                        *)
(***************************************************************************)
IF_FetchOutcomes == {"ok", "fail"}

IF_WriteOutcomes == {"ok", "error", "unreadable"}

IF_fetchDataFromSheet(sheet, projectID, outcome) ==
    IF outcome = "ok" THEN ForProject(sheet, projectID) ELSE <<>>

\* what the promise of a write does: the fallback of an unreadable answer
\* is 'success_callback'
IF_postDataToSheet(w) == IF w \in {"ok", "unreadable"} THEN "success" ELSE "reject"

IF_renderProjectDetails(project) == details' = [details EXCEPT !.project = project]

\* tasks.sort((a, b) => parseInt(a.Name) - parseInt(b.Name))
RECURSIVE IF_insertTask(_, _)
IF_insertTask(task, sorted) ==
    IF sorted = <<>> THEN <<task>>
    ELSE IF task.TaskName < Head(sorted).TaskName THEN <<task>> \o sorted
    ELSE <<Head(sorted)>> \o IF_insertTask(task, Tail(sorted))

RECURSIVE IF_sortTasks(_)
IF_sortTasks(rows) ==
    IF rows = <<>> THEN <<>>
    ELSE IF_insertTask(rows[Len(rows)], IF_sortTasks(SubSeq(rows, 1, Len(rows) - 1)))

IF_renderTaskTable(projectID, rows, read) ==
    taskPanel' = Panel(IF Len(rows) = 0 THEN "empty" ELSE "rows", projectID, rows, read)

\* let isPreviousTaskComplete, as it stands when option i is judged: the
\* value left by the options before it (reset when a task is below 100),
\* lowered again when the task just before is below 100
RECURSIVE IF_isPreviousTaskComplete(_, _)
IF_isPreviousTaskComplete(rows, i) ==
    IF i = 1 THEN TRUE
    ELSE LET left == IF rows[i - 1].Progress < 100 THEN FALSE
                     ELSE IF_isPreviousTaskComplete(rows, i - 1)
         IN IF rows[i - 1].Progress < 100 THEN FALSE ELSE left

IF_disabled_PreviousOnly(rows, i) ==
    /\ i > 1
    /\ rows[i - 1].Progress < 100
    /\ rows[i].Progress < 100

\* option.disabled
IF_disabled(rows, i) ==
    /\ ~IF_isPreviousTaskComplete(rows, i)
    /\ rows[i].Progress < 100

IF_populateTaskUpdateSelector(rows) ==
    taskToUpdateSelector' =
        {rows[i].TaskName : i \in {k \in 1..Len(rows) : ~IF_disabled(rows, k)}}

IF_RecentCount == 5

IF_renderRecentExpenses(projectID, rows, read) ==
    expensePanel' = Panel(IF Len(rows) = 0 THEN "empty" ELSE "rows", projectID,
                          SubSeq(rows, 1, IF Len(rows) < IF_RecentCount THEN Len(rows)
                                          ELSE IF_RecentCount), read)

IF_MaterialLine(m) ==
    [ItemID |-> m.ItemID, required |-> OrZero(m.Required_Qty),
     dispatched |-> OrZero(m.Dispatched_Qty),
     balance |-> OrZero(m.Required_Qty) - OrZero(m.Dispatched_Qty)]

IF_renderMaterialTable(projectID, rows, read) ==
    materialPanel' = Panel(IF Len(rows) = 0 THEN "empty" ELSE "rows", projectID,
                           [i \in 1..Len(rows) |-> IF_MaterialLine(rows[i])], read)

Min(a, b) == IF a < b THEN a ELSE b

IF_renderKPIs(projectID, taskRows, expenseRows, materialRows) ==
    LET withProgress(task) == task.Progress >= 0
        tasksWithProgress == SelectSeq(taskRows, withProgress)
        lines == [i \in 1..Len(materialRows) |-> IF_MaterialLine(materialRows[i])]
        totalRequired == SumSeq(Required(lines))
        totalDispatched == SumSeq(Dispatched(lines))
    IN kpi' = [progress |-> Tile("pct",
                   IF Len(tasksWithProgress) > 0
                   THEN Round(SumSeq(Progresses(tasksWithProgress)), Len(tasksWithProgress))
                   ELSE 0, projectID),
               totalExpenses |-> Tile("amount", SumSeq(Amounts(expenseRows)), projectID),
               material |-> Tile("pct",
                   IF totalRequired > 0
                   THEN Min(100, Round(100 * totalDispatched, totalRequired))
                   ELSE 0, projectID)]

\* renderDashboard up to its await; it reads currentProjectID as the caller
\* has just set it
IF_renderDashboard(projectID, projs, infl) ==
    IF projectID = NoProject
    THEN /\ currentProjectName' = "Select a Project"
         /\ taskPanel' = Panel("select", NoProject, <<>>, "none")
         /\ materialPanel' = Panel("select", NoProject, <<>>, "none")
         /\ expensePanel' = Panel("select", NoProject, <<>>, "none")
         /\ IF_renderProjectDetails(NoRow)
         /\ IF_renderKPIs(NoProject, <<>>, <<>>, <<>>)
         /\ inflight' = infl
         /\ UNCHANGED <<totalSpent, taskToUpdateSelector>>
    ELSE IF Find(projs, projectID) = NoRow
    THEN /\ currentProjectName' = "Project Not Found"
         /\ inflight' = infl
         /\ UNCHANGED <<details, taskPanel, expensePanel, materialPanel, kpi, totalSpent,
                        taskToUpdateSelector>>
    ELSE /\ currentProjectName' = Find(projs, projectID).Name
         /\ IF_renderProjectDetails(Find(projs, projectID))
         /\ inflight' = infl (+) One([op |-> "renderDashboard", pid |-> projectID,
                res |-> [sh \in {"Tasks", "Expenses", "Materials"} |->
                            [read |-> "pending", rows |-> <<>>]]])
         /\ UNCHANGED <<taskPanel, expensePanel, materialPanel, kpi, totalSpent,
                        taskToUpdateSelector>>

IF_handleProjectSelectionChange(id, projs, infl) ==
    /\ currentProjectID' = id
    /\ storedProjectID' = id
    /\ IF id # NoProject
       THEN IF_renderDashboard(id, projs, infl)
       ELSE /\ inflight' = infl
            /\ UNCHANGED ui

IF_LoadProjectsDone(t, outcome) ==
    /\ t.op = "loadProjects"
    /\ Fault(outcome)
    /\ LET infl == inflight (-) One(t)
           projs == IF outcome = "ok" THEN projects ELSE <<>>
           withID(p) == p.ProjectID # NoProject
           validProjects == SelectSeq(projs, withID)
           projectToSelect == IF Find(validProjects, storedProjectID) # NoRow
                              THEN storedProjectID ELSE validProjects[1].ProjectID
       IN /\ allProjects' = projs
          /\ IF Len(validProjects) = 0
             THEN /\ projectSelector' = [options |-> <<>>, value |-> NoProject]
                  /\ currentProjectID' = NoProject
                  /\ IF_renderDashboard(NoProject, projs, infl)
                  /\ UNCHANGED storedProjectID
             ELSE /\ projectSelector' = [options |-> Ids(validProjects),
                                         value |-> projectToSelect]
                  /\ IF_handleProjectSelectionChange(projectToSelect, projs, infl)
    /\ UNCHANGED <<store, lastAlert, unhandled, events>>

\* one of the three reads of a renderDashboard answers; the last answer
\* resumes the function after its Promise.all
IF_FetchDone(t, sheet, outcome) ==
    /\ t.op = "renderDashboard"
    /\ t.res[sheet].read = "pending"
    /\ Fault(outcome)
    /\ LET rows == CASE sheet = "Tasks" -> tasks
                     [] sheet = "Expenses" -> expenses
                     [] OTHER -> materials
           t2 == [t EXCEPT !.res[sheet] =
                      [read |-> outcome,
                       rows |-> IF_fetchDataFromSheet(rows, t.pid, outcome)]]
           sortedTasks == IF_sortTasks(t2.res["Tasks"].rows)
       IN IF \A sh \in DOMAIN t2.res : t2.res[sh].read # "pending"
          THEN /\ IF_renderTaskTable(t.pid, sortedTasks, t2.res["Tasks"].read)
               /\ IF_populateTaskUpdateSelector(sortedTasks)
               /\ IF_renderRecentExpenses(t.pid, t2.res["Expenses"].rows,
                                          t2.res["Expenses"].read)
               /\ IF_renderMaterialTable(t.pid, t2.res["Materials"].rows,
                                         t2.res["Materials"].read)
               /\ IF_renderKPIs(t.pid, sortedTasks, t2.res["Expenses"].rows,
                                t2.res["Materials"].rows)
               /\ inflight' = inflight (-) One(t)
          ELSE /\ inflight' = (inflight (-) One(t)) (+) One(t2)
               /\ UNCHANGED <<taskPanel, expensePanel, materialPanel, kpi,
                              taskToUpdateSelector>>
    /\ UNCHANGED <<store, session, currentProjectName, details, totalSpent, lastAlert,
                   unhandled, events>>

IF_ProjectSelectorChange(id) ==
    /\ UserMayAct
    /\ events' = events + 1
    /\ id \in Range(projectSelector.options)
           \cup (IF projectSelector.options = <<>> THEN {NoProject} ELSE {})
    /\ projectSelector' = [projectSelector EXCEPT !.value = id]
    /\ IF_handleProjectSelectionChange(id, allProjects, inflight)
    /\ UNCHANGED <<store, allProjects, lastAlert, unhandled, faults>>

IF_EditProjectDetailsClick ==
    /\ UserMayAct
    /\ events' = events + 1
    /\ details' = [details EXCEPT !.mode = "edit"]
    /\ UNCHANGED <<store, session, currentProjectName, taskPanel, expensePanel,
                   materialPanel, kpi, totalSpent, taskToUpdateSelector, inflight,
                   lastAlert, unhandled, faults>>

\* a handler that stops at its await of a write
IF_Submit(request) ==
    /\ UserMayAct
    /\ events' = events + 1
    /\ inflight' = inflight (+) One(request)
    /\ UNCHANGED <<store, session, ui, lastAlert, unhandled, faults>>

\* a handler that returns after an alert
IF_Refuse(op, msg) ==
    /\ UserMayAct
    /\ events' = events + 1
    /\ lastAlert' = Alert(op, msg, <<>>)
    /\ UNCHANGED <<store, session, ui, inflight, unhandled, faults>>

\* the promise of the write rejects and the handler has no catch: nothing
\* after the await runs
IF_Rejected(t) ==
    /\ unhandled' = TRUE
    /\ inflight' = inflight (-) One(t)
    /\ UNCHANGED <<session, ui, lastAlert>>

IF_SaveProjectDetailsClick(newName) ==
    IF currentProjectID = NoProject
    THEN IF_Refuse("saveDetails", "no project selected")
    ELSE IF_Submit([op |-> "saveDetails", pid |-> currentProjectID, name |-> newName])

IF_loadProjects(infl) ==
    /\ inflight' = infl (+) One([op |-> "loadProjects", then |-> "none"])
    /\ UNCHANGED <<session, currentProjectName, taskPanel, expensePanel, materialPanel,
                   kpi, totalSpent, taskToUpdateSelector>>

IF_SaveProjectDetailsDone(t, w) ==
    /\ t.op = "saveDetails"
    /\ Fault(w)
    /\ projects' = IF w = "ok" THEN PutProjects(projects, t.pid, t.name) ELSE projects
    /\ IF IF_postDataToSheet(w) = "success"
       THEN /\ lastAlert' = Alert("saveDetails", "success", <<w>>)
            /\ details' = [details EXCEPT !.mode = "display"]
            /\ IF_loadProjects(inflight (-) One(t))
            /\ UNCHANGED unhandled
       ELSE IF_Rejected(t)
    /\ UNCHANGED <<tasks, expenses, materials, nextItem, events>>

IF_ExpenseSubmit(expenseAmount, expenseDescription) ==
    IF currentProjectID = NoProject
    THEN IF_Refuse("expense", "select a project")
    ELSE IF_Submit([op |-> "expense",
             payload |-> ExpenseRow(currentProjectID, expenseAmount, expenseDescription)])

\* after a write that succeeded the handlers call renderDashboard(), which
\* reads currentProjectID and allProjects as they are by then
IF_ExpenseDone(t, w) ==
    /\ t.op = "expense"
    /\ Fault(w)
    /\ expenses' = IF w = "ok" THEN Append(expenses, t.payload) ELSE expenses
    /\ IF IF_postDataToSheet(w) = "success"
       THEN /\ lastAlert' = Alert("expense", "success", <<w>>)
            /\ IF_renderDashboard(currentProjectID, allProjects, inflight (-) One(t))
            /\ UNCHANGED <<session, unhandled>>
       ELSE IF_Rejected(t)
    /\ UNCHANGED <<projects, tasks, materials, nextItem, events>>

IF_UpdateTaskSubmit(taskName, progress) ==
    /\ taskName \in taskToUpdateSelector \cup {0}
    /\ IF currentProjectID = NoProject
       THEN IF_Refuse("updateTask", "select a project")
       ELSE IF taskName = 0
       THEN IF_Refuse("updateTask", "select a task")
       ELSE IF_Submit([op |-> "updateTask", pid |-> currentProjectID,
                       taskName |-> taskName, progress |-> progress])

\* the store's updateTask: the progress sent replaces the task's progress
IF_updateTask(rows, projectID, taskName, progress) ==
    [i \in 1..Len(rows) |->
        IF rows[i].ProjectID = projectID /\ rows[i].TaskName = taskName
        THEN [rows[i] EXCEPT !.Progress = progress] ELSE rows[i]]

IF_UpdateTaskDone(t, w) ==
    /\ t.op = "updateTask"
    /\ Fault(w)
    /\ tasks' = IF w = "ok" THEN IF_updateTask(tasks, t.pid, t.taskName, t.progress)
                ELSE tasks
    /\ IF IF_postDataToSheet(w) = "success"
       THEN /\ lastAlert' = Alert("updateTask", "success", <<w>>)
            /\ IF_renderDashboard(currentProjectID, allProjects, inflight (-) One(t))
            /\ UNCHANGED <<session, unhandled>>
       ELSE IF_Rejected(t)
    /\ UNCHANGED <<projects, expenses, materials, nextItem, events>>

IF_MaterialOptions ==
    IF materialPanel.st = "rows" THEN {l.ItemID : l \in Range(materialPanel.rows)} ELSE {}

IF_RecordDispatchSubmit(selectedItemName, newMaterialName, requiredQuantity, dispatchQuantity, materialUnit) ==
    /\ selectedItemName \in IF_MaterialOptions \cup {0}
    /\ LET isNewMaterial == selectedItemName = 0
           itemName == IF isNewMaterial THEN newMaterialName ELSE selectedItemName
       IN IF currentProjectID = NoProject
          THEN IF_Refuse("dispatch", "select a project")
          ELSE IF itemName = 0
          THEN IF_Refuse("dispatch", "select a material or enter a name")
          ELSE IF ~isNewMaterial /\ (dispatchQuantity <= 0 \/ dispatchQuantity = NaN)
          THEN IF_Refuse("dispatch", "quantity must be 1 or greater")
          ELSE IF isNewMaterial /\ (dispatchQuantity < 0 \/ dispatchQuantity = NaN)
          THEN IF_Refuse("dispatch", "quantity cannot be negative")
          ELSE IF materialUnit = ""
          THEN IF_Refuse("dispatch", "enter a unit")
          ELSE IF isNewMaterial /\ requiredQuantity <= 0
          THEN IF_Refuse("dispatch", "enter a required quantity")
          ELSE IF_Submit([op |-> "dispatch", pid |-> currentProjectID,
                          itemName |-> itemName, dispatchQuantity |-> dispatchQuantity,
                          requiredQuantity |-> IF isNewMaterial THEN requiredQuantity
                                               ELSE 0])

\* the store's recordDispatch: the quantity is added to the item's
\* dispatched quantity; an item the project does not have is created
IF_recordDispatch(rows, projectID, itemName, dispatchQuantity, requiredQuantity) ==
    IF \E i \in 1..Len(rows) : rows[i].ProjectID = projectID /\ rows[i].ItemID = itemName
    THEN [i \in 1..Len(rows) |->
             IF rows[i].ProjectID = projectID /\ rows[i].ItemID = itemName
             THEN [rows[i] EXCEPT !.Dispatched_Qty = @ + dispatchQuantity,
                                  !.Balance_Qty = @ - dispatchQuantity]
             ELSE rows[i]]
    ELSE Append(rows, MaterialRow(projectID, itemName, requiredQuantity, dispatchQuantity,
                                  requiredQuantity - dispatchQuantity))

IF_RecordDispatchDone(t, w) ==
    /\ t.op = "dispatch"
    /\ Fault(w)
    /\ materials' = IF w = "ok"
                    THEN IF_recordDispatch(materials, t.pid, t.itemName, t.dispatchQuantity,
                                           t.requiredQuantity)
                    ELSE materials
    /\ IF IF_postDataToSheet(w) = "success"
       THEN /\ lastAlert' = Alert("dispatch", "success", <<w>>)
            /\ IF_renderDashboard(currentProjectID, allProjects, inflight (-) One(t))
            /\ UNCHANGED <<session, unhandled>>
       ELSE IF_Rejected(t)
    /\ UNCHANGED <<projects, tasks, expenses, nextItem, events>>

\* 'P' + the last four digits of Date.now(): any of the identifiers
IF_NewIDs == 1..3

IF_AddProjectClick(newName, newID) ==
    IF newName = ""
    THEN /\ UserMayAct
         /\ events' = events + 1
         /\ UNCHANGED <<store, session, ui, inflight, lastAlert, unhandled, faults>>
    ELSE IF_Submit([op |-> "addProject", newID |-> newID, name |-> newName])

\* a rejected write skips the failure alert and the reload as well
IF_AddProjectDone(t, w) ==
    /\ t.op = "addProject"
    /\ Fault(w)
    /\ projects' = IF w = "ok" THEN Append(projects, ProjectRow(t.newID, t.name))
                   ELSE projects
    /\ tasks' = IF w = "ok" THEN tasks \o tasksPayload(t.newID) ELSE tasks
    /\ IF IF_postDataToSheet(w) = "success"
       THEN /\ lastAlert' = Alert("addProject", "success", <<w>>)
            /\ IF_loadProjects(inflight (-) One(t))
            /\ UNCHANGED <<details, unhandled>>
       ELSE IF_Rejected(t)
    /\ UNCHANGED <<expenses, materials, nextItem, events>>

IF_DeleteProjectClick ==
    /\ UserMayAct
    /\ events' = events + 1
    /\ IF currentProjectID = NoProject
       THEN /\ lastAlert' = Alert("deleteProject", "no project selected", <<>>)
            /\ UNCHANGED unhandled
       ELSE IF Find(allProjects, currentProjectID) = NoRow
       THEN /\ unhandled' = TRUE
            /\ UNCHANGED lastAlert
       ELSE /\ lastAlert' = Alert("deleteProject", "delete manually", <<>>)
            /\ UNCHANGED unhandled
    /\ UNCHANGED <<store, session, ui, inflight, faults>>

IF_StoredIDs == {NoProject, 2}

\* the page as the markup gives it: loadProjects changes nothing before its
\* await
IF_Init ==
    /\ \E sh \in InitialSheets :
          /\ projects = sh.p
          /\ tasks = SeedTasks(Ids(sh.p))
          /\ expenses = sh.e
          /\ materials = sh.m
    /\ nextItem = 2
    /\ currentProjectID = NoProject
    /\ allProjects = <<>>
    /\ projectSelector = [options |-> <<>>, value |-> NoProject]
    /\ storedProjectID \in IF_StoredIDs
    /\ currentProjectName = "Select a Project"
    /\ details = [mode |-> "display", project |-> NoRow]
    /\ taskPanel = Panel("select", NoProject, <<>>, "none")
    /\ expensePanel = Panel("select", NoProject, <<>>, "none")
    /\ materialPanel = Panel("select", NoProject, <<>>, "none")
    /\ kpi = [progress |-> Tile("pct", 0, NoProject),
              material |-> Tile("pct", 0, NoProject),
              totalExpenses |-> Tile("amount", 0, NoProject)]
    /\ totalSpent = 0
    /\ taskToUpdateSelector = {}
    /\ lastAlert = NoAlert
    /\ unhandled = FALSE
    /\ events = 0
    /\ faults = 0
    /\ inflight = One([op |-> "loadProjects", then |-> "none"])

IF_Next ==
    \/ \E t \in InFlight, outcome \in IF_FetchOutcomes : IF_LoadProjectsDone(t, outcome)
    \/ \E t \in InFlight, sh \in {"Tasks", "Expenses", "Materials"},
          outcome \in IF_FetchOutcomes : IF_FetchDone(t, sh, outcome)
    \/ \E id \in 0..(MaxEvents + 2) : IF_ProjectSelectorChange(id)
    \/ IF_EditProjectDetailsClick
    \/ \E n \in ProjectNames \cup {""} : IF_SaveProjectDetailsClick(n)
    \/ \E t \in InFlight, w \in IF_WriteOutcomes : IF_SaveProjectDetailsDone(t, w)
    \/ \E a \in AmountInputs, d \in {"", "d"} : IF_ExpenseSubmit(a, d)
    \/ \E t \in InFlight, w \in IF_WriteOutcomes : IF_ExpenseDone(t, w)
    \/ \E n \in 0..NumTasks, pr \in ProgressInputs : IF_UpdateTaskSubmit(n, pr)
    \/ \E t \in InFlight, w \in IF_WriteOutcomes : IF_UpdateTaskDone(t, w)
    \/ \E i \in 0..MaxQty, n \in 0..MaxQty, r \in Quantities, q \in AmountInputs,
          u \in {"", "u"} : IF_RecordDispatchSubmit(i, n, r, q, u)
    \/ \E t \in InFlight, w \in IF_WriteOutcomes : IF_RecordDispatchDone(t, w)
    \/ \E n \in ProjectNames \cup {""}, id \in IF_NewIDs : IF_AddProjectClick(n, id)
    \/ \E t \in InFlight, w \in IF_WriteOutcomes : IF_AddProjectDone(t, w)
    \/ IF_DeleteProjectClick

SpecIF == IF_Init /\ [][IF_Next]_vars

(***************************************************************************)
(* Claims C1 .. C10.                                                       *)
(***************************************************************************)
Quiet == inflight = EmptyBag

\* C1: once every in-flight fetch has completed, the task, expense and
\* material panels and their KPI tiles show data of the project that is
\* currently selected, whatever the order of selections and completions.
C1_PanelsShowCurrentProject ==
    (Quiet /\ currentProjectID # NoProject) =>
        /\ taskPanel.pid = currentProjectID
        /\ expensePanel.pid = currentProjectID
        /\ materialPanel.pid = currentProjectID
        /\ kpi.progress.pid = currentProjectID
        /\ kpi.totalExpenses.pid = currentProjectID
        /\ kpi.material.pid = currentProjectID

\* C2: with a single client no two rows of the Projects sheet share a
\* ProjectID, whatever the interleaving of add-project clicks and reloads.
C2_ProjectIDsUnique ==
    \A i, j \in 1..Len(projects) :
        i # j => projects[i].ProjectID # projects[j].ProjectID

AllSucceeded(alert) ==
    IF alert.op = "addProject"
    THEN \A i \in 1..Len(alert.results) : alert.results[i] = "success"
    ELSE \A sh \in Sheets : alert.results[sh] \in {"deleted", "deleted0"}

\* C3: the success message of add project and of delete project is shown
\* only when every store request of the operation succeeded.
C3_SuccessOnlyWhenAllSucceeded ==
    (lastAlert.op \in {"addProject", "deleteProject"} /\ lastAlert.msg = "success")
        => AllSucceeded(lastAlert)

NoProjectOperation ==
    \A t \in InFlight : t.op \notin {"addProject", "deleteProject"}

\* C4: after add-project and delete-project operations, failed requests
\* included, every Task row references a ProjectID that has a Project row.
C4_TasksReferenceProjects ==
    NoProjectOperation =>
        \A i \in 1..Len(tasks) :
            \E j \in 1..Len(projects) : projects[j].ProjectID = tasks[i].ProjectID

\* C5: a panel whose read failed (network error, non-2xx status, store
\* error or unparseable body) shows the explicit error state, never the
\* state of a successful read of zero rows.
C5_FailedReadShowsError ==
    \A panel \in {taskPanel, expensePanel, materialPanel} :
        panel.read \in {"fail", "notarray"} => panel.st = "failed"

\* C6: when the Materials read of the current selection is the only request
\* that failed and every fetch has completed, the task panel and the
\* expense panel show the result of their own successful reads, in every
\* completion order.
C6_MaterialsFailureLeavesPanels ==
    (/\ Quiet
     /\ currentProjectID # NoProject
     /\ faults = 1
     /\ materialPanel.read = "fail"
     /\ materialPanel.pid = currentProjectID)
        => /\ taskPanel.read = "ok" /\ taskPanel.st \in {"rows", "empty"}
           /\ expensePanel.read = "ok" /\ expensePanel.st \in {"rows", "empty"}

WriteOps == {"addProject", "saveDetails", "expense", "updateTask", "dispatch"}

\* C7: a step in which a write handler ends on a failed store request shows
\* that handler's failure message and raises no unhandled rejection.
C7_FailedWriteShowsFailure ==
    [][\A t \in InFlight :
          (/\ t.op \in WriteOps
           /\ faults' = faults + 1
           /\ \A u \in BagToSet(inflight') : u.op # t.op)
              => /\ lastAlert'.op = t.op
                 /\ lastAlert'.msg = "failure"
                 /\ unhandled' = unhandled]_vars

\* C8: no write request is issued for input that fails a precondition: a
\* non-numeric amount, an empty required field, or a new project
\* identifier that the store already holds.
C8_NoWriteForInvalidInput ==
    \A t \in InFlight :
        /\ t.op = "expense" =>
               t.payload.Amount # NaN /\ t.payload.Description # ""
        /\ (t.op = "addProject" /\ t.projectResult = "pending") =>
               \A i \in 1..Len(projects) : projects[i].ProjectID # t.newID

\* C9: a task's completion date is set if and only if its status is
\* Completed, after any sequence of task updates.
C9_CompletionDateIffCompleted ==
    \A i \in 1..Len(tasks) :
        (tasks[i].CompletionDate # "") <=> (tasks[i].Status = "Completed")

\* C10: the stored dispatched quantity of a material never decreases.
C10_DispatchedNeverDecreases ==
    [][\A i \in 1..Len(materials) :
          (i <= Len(materials') /\ materials'[i].ItemID = materials[i].ItemID)
              => materials'[i].Dispatched_Qty >= materials[i].Dispatched_Qty]_vars

(***************************************************************************)
(* Claims C11 .. C20.                                                      *)
(***************************************************************************)
\* C11: the balance shown for every material of the selected project is
\* its required quantity minus its dispatched quantity, after any sequence
\* of material creations and dispatch updates.
C11_BalanceIsRequiredMinusDispatched ==
    materialPanel.st = "rows" =>
        \A i \in 1..Len(materialPanel.rows) :
            materialPanel.rows[i].balance =
                materialPanel.rows[i].required - materialPanel.rows[i].dispatched


ExpenseRequests(infl) == {t \in BagToSet(infl) : t.op = "expense"}

\* C12: every step leaves the stored expense rows unchanged and present,
\* or adds one row, that of an expense request issued for the project
\* selected when the form was submitted.
C12_ExpensesAppendOnly ==
    [][/\ \/ expenses' = expenses
          \/ \E t \in ExpenseRequests(inflight) : expenses' = Append(expenses, t.payload)
       /\ \A t \in ExpenseRequests(inflight') \ ExpenseRequests(inflight) :
              t.payload.ProjectID = currentProjectID /\ currentProjectID # NoProject]_vars

\* C12 as amended: as above, except that a delete of a project removes the
\* expense rows of that project, and no others.
C12_ExpensesAppendOnlyButDelete ==
    [][/\ \/ expenses' = expenses
          \/ \E t \in ExpenseRequests(inflight) : expenses' = Append(expenses, t.payload)
          \/ \E t \in InFlight :
                 t.op = "deleteProject" /\ expenses' = NotForProject(expenses, t.pid)
       /\ \A t \in ExpenseRequests(inflight') \ ExpenseRequests(inflight) :
              t.payload.ProjectID = currentProjectID /\ currentProjectID # NoProject]_vars

C12_Witness ==
    /\ lastAlert.op = "expense"
    /\ lastAlert.msg = "success"
    /\ Len(expenses) > 1

(***************************************************************************)
(* The KPI computations as functions of their inputs.  A point in time is  *)
(* a number of ticks since the Unix epoch, a calendar day the number of    *)
(* days since it.  A stored date is empty, a spreadsheet serial number     *)
(* (days since 1899-12-30) or an ISO string YYYY-MM-DD.                    *)
(***************************************************************************)
TicksPerDay == 4         \* resolution of a point in time
FirstDay == 20000        \* first calendar day of the window of dates
DaySpan == 4             \* length of the window of dates

SerialOfUnixEpoch == 25569   \* 1970-01-01 counted from Date.UTC(1899, 11, 30)

Days == FirstDay..(FirstDay + DaySpan)

Today == FirstDay + 2

\* the instants of the day Today in UTC
Nows == {Today * TicksPerDay + f : f \in 0..(TicksPerDay - 1)}

\* offsets of local time from UTC
TimeZones == {-1, 0, 1}

EmptyDate == [k |-> "empty"]

SerialDate(day) == [k |-> "serial", n |-> day + SerialOfUnixEpoch]

ISODate(day) == [k |-> "iso", day |-> day]

StoredDates == {EmptyDate} \cup {SerialDate(d) : d \in Days} \cup {ISODate(d) : d \in Days}

\* the calendar day a stored date stands for
DayOf(raw) == IF raw.k = "serial" THEN raw.n - SerialOfUnixEpoch ELSE raw.day

NoDate == [k |-> "none"]

\* Number(raw) of a stored date: the serial number, NaN for an ISO string
NumberOfDate(raw) == IF raw.k = "serial" THEN raw.n ELSE NaN

serialDateToISO(serial) ==
    IF serial = NaN \/ serial < 1 THEN NoDate
    ELSE ISODate(serial - SerialOfUnixEpoch)

\* the instant of 00:00 UTC of the day, null for ''
safeDate(isoDate) == IF isoDate = NoDate THEN NoDate ELSE [k |-> "time", t |-> isoDate.day * TicksPerDay]

Abs(x) == IF x < 0 THEN -x ELSE x

\* Math.floor(Math.abs(date2 - date1) / day)
diffInDays(date1, date2) == Abs(date2 - date1) \div TicksPerDay

\* today.setUTCHours(0, 0, 0, 0)
UTCMidnight(now) == (now \div TicksPerDay) * TicksPerDay

DaysTile(tag, val) == [tag |-> tag, val |-> val]

\* src/script.js updateDashboard: the days-spent and days-left tiles
DaysSpent(project, now) ==
    LET startDateISO == IF project.StartDate = EmptyDate THEN NoDate
                        ELSE serialDateToISO(NumberOfDate(project.StartDate))
        startDate == safeDate(startDateISO)
        today == UTCMidnight(now)
    IN IF startDate = NoDate THEN DaysTile("na", 0)
       ELSE DaysTile("days", IF diffInDays(startDate.t, today) > 0
                             THEN diffInDays(startDate.t, today) ELSE 0)

DaysLeft(project, now) ==
    LET deadlineISO == IF project.Deadline = EmptyDate THEN NoDate
                       ELSE serialDateToISO(NumberOfDate(project.Deadline))
        deadline == safeDate(deadlineISO)
        today == UTCMidnight(now)
    IN IF deadline = NoDate THEN DaysTile("nodeadline", 0)
       ELSE IF today <= deadline.t
       THEN DaysTile("left", IF diffInDays(today, deadline.t) > 0
                             THEN diffInDays(today, deadline.t) ELSE 0)
       ELSE DaysTile("overdue", diffInDays(deadline.t, today))

\* Math.ceil(a / b) for b > 0
CeilDiv(a, b) == -((-a) \div b)

\* new Date(raw) of a stored date: 00:00 UTC of the day of an ISO string,
\* that many milliseconds after the Unix epoch for a number
NewDate(raw) == IF raw.k = "iso" THEN raw.day * TicksPerDay ELSE 0

\* today.setHours(0, 0, 0, 0): 00:00 local time of the local day
LocalMidnight(now, tz) == ((now + tz) \div TicksPerDay) * TicksPerDay - tz

\* src/unnamed/part_001 updateDashboard
AS_diffInDays(date1, date2) == CeilDiv(Abs(date2 - date1), TicksPerDay)

AS_DaysSpent(project, now, tz, shown) ==
    LET today == LocalMidnight(now, tz)
        daysSpent == AS_diffInDays(NewDate(project.StartDate), today) - 1
    IN IF project.StartDate = EmptyDate THEN shown
       ELSE DaysTile("days", IF daysSpent > 0 THEN daysSpent ELSE 0)

AS_DaysLeft(project, now, tz) ==
    LET today == LocalMidnight(now, tz)
        deadline == NewDate(project.Deadline)
        daysToDeadline == AS_diffInDays(today, deadline) - 1
    IN IF project.Deadline = EmptyDate THEN DaysTile("nodeadline", 0)
       ELSE IF today <= deadline
       THEN DaysTile("left", IF daysToDeadline > 0 THEN daysToDeadline ELSE 0)
       ELSE DaysTile("overdue", AS_diffInDays(deadline, today))

\* src/unnamed/part_000 renderKPIs
IF_calculateDays(date1, date2) == CeilDiv(Abs(date2 - date1), TicksPerDay)

IF_DaysSpent(project, now) ==
    IF project.StartDate = EmptyDate THEN DaysTile("na", 0)
    ELSE DaysTile("days", IF_calculateDays(NewDate(project.StartDate), now))

IF_DaysLeft(project, now) ==
    LET left == CeilDiv(NewDate(project.Deadline) - now, TicksPerDay)
    IN IF project.Deadline = EmptyDate THEN DaysTile("na", 0)
       ELSE DaysTile("left", IF left > 0 THEN left ELSE 0)

(***************************************************************************)
(* generateNewID on identifiers as they are stored: strings, here          *)
(* sequences of characters.                                                *)
(***************************************************************************)
MaxIDs == 3              \* project rows in the list at the start

DigitChars == <<"0", "1", "2", "3", "4", "5", "6", "7", "8", "9">>

IsDigit(c) == \E i \in 1..10 : DigitChars[i] = c

DigitValue(c) == (CHOOSE i \in 1..10 : DigitChars[i] = c) - 1

\* String.prototype.trim
trim(s) ==
    LET first == {i \in 1..Len(s) : s[i] # " "}
    IN IF first = {} THEN <<>>
       ELSE SubSeq(s, CHOOSE i \in first : \A j \in first : i <= j,
                      CHOOSE i \in first : \A j \in first : j <= i)

matchHT_CaseSensitive(id) ==
    /\ Len(id) >= 4
    /\ SubSeq(id, 1, 3) = <<"H", "T", "-">>
    /\ \A i \in 4..Len(id) : IsDigit(id[i])

\* id.match(/^HT-(\d+)$/i)
matchHT(id) ==
    /\ Len(id) >= 4
    /\ id[1] \in {"H", "h"}
    /\ id[2] \in {"T", "t"}
    /\ id[3] = "-"
    /\ \A i \in 4..Len(id) : IsDigit(id[i])

\* parseInt(digits, 10)
RECURSIVE parseInt(_)
parseInt(digits) ==
    IF digits = <<>> THEN 0
    ELSE 10 * parseInt(SubSeq(digits, 1, Len(digits) - 1)) + DigitValue(digits[Len(digits)])

\* String(n) of a natural number
RECURSIVE StringOf(_)
StringOf(n) ==
    IF n < 10 THEN <<DigitChars[n + 1]>>
    ELSE Append(StringOf(n \div 10), DigitChars[(n % 10) + 1])

\* s.padStart(targetLength, c)
RECURSIVE padStart(_, _, _)
padStart(s, targetLength, c) ==
    IF Len(s) >= targetLength THEN s ELSE padStart(<<c>> \o s, targetLength, c)

ID_existingIDs(projs) ==
    [i \in 1..Len(projs) |->
        LET id == trim(projs[i].ProjectID)
        IN IF matchHT(id) THEN parseInt(SubSeq(id, 4, Len(id))) ELSE 0]

ID_generateNewID(projs) ==
    LET maxID == Max(Range(ID_existingIDs(projs)) \cup {0})
        newNum == maxID + 1
    IN <<"H", "T", "-">> \o padStart(StringOf(newNum), 2, "0")

\* identifiers found in the sheet
ID_Identifiers ==
    { <<"H", "T", "-", "0", "1">>, <<"H", "T", "-", "0", "3">>, <<"H", "T", "-", "2">>,
      <<"h", "t", "-", "5">>, <<"H", "T", "-", "9", "9">>, <<" ", "H", "T", "-", "0", "7", " ">>,
      <<"H", "T", "-", "1", "a">>, <<"H", "T", "-">>, <<"P", "1", "2", "3", "4">> }

ID_Lists ==
    UNION {[1..n -> {ProjectRow(id, "a") : id \in ID_Identifiers}] : n \in 0..MaxIDs}

ID_Init ==
    /\ projects \in ID_Lists
    /\ allProjects = projects
    /\ tasks = <<>>
    /\ expenses = <<>>
    /\ materials = <<>>
    /\ nextItem = 2
    /\ currentProjectID = NoProject
    /\ projectSelector = [options |-> <<>>, value |-> NoProject]
    /\ currentProjectName = "Select a Project"
    /\ details = [mode |-> "display", project |-> NoRow]
    /\ taskPanel = Panel("select", NoProject, <<>>, "none")
    /\ expensePanel = Panel("select", NoProject, <<>>, "none")
    /\ materialPanel = Panel("select", NoProject, <<>>, "none")
    /\ kpi = [progress |-> Tile("pct", 0, NoProject),
              material |-> Tile("pct", 0, NoProject),
              totalExpenses |-> Tile("amount", 0, NoProject)]
    /\ storedProjectID = NoProject
    /\ totalSpent = 0
    /\ taskToUpdateSelector = {}
    /\ inflight = EmptyBag
    /\ lastAlert = NoAlert
    /\ unhandled = FALSE
    /\ events = 0
    /\ faults = 0

ID_Rest == <<tasks, expenses, materials, nextItem, currentProjectID, projectSelector, storedProjectID, currentProjectName, details, taskPanel, expensePanel, materialPanel, kpi, totalSpent, taskToUpdateSelector, unhandled, faults>>

\* addProjectBtn click handler up to its await: the identifier it asks for
ID_AddProjectClick(newName) ==
    /\ inflight = EmptyBag
    /\ events <= MaxEvents
    /\ events' = events + 1
    /\ inflight' = IF newName = "" THEN inflight
                   ELSE One([op |-> "addProject", newID |-> ID_generateNewID(allProjects),
                             name |-> newName])
    /\ UNCHANGED <<projects, allProjects, lastAlert, ID_Rest>>

\* the answer to the POST of the project row, and the reload of the list
ID_AddProjectDone(t, w) ==
    /\ t.op = "addProject"
    /\ projects' = IF w = "ok" THEN Append(projects, ProjectRow(t.newID, t.name)) ELSE projects
    /\ allProjects' = projects'
    /\ lastAlert' = Alert("addProject", sendDataToSheet(w), <<w>>)
    /\ inflight' = inflight (-) One(t)
    /\ UNCHANGED <<events, ID_Rest>>

ID_Next ==
    \/ \E n \in ProjectNames \cup {""} : ID_AddProjectClick(n)
    \/ \E t \in InFlight, w \in WriteOutcomes : ID_AddProjectDone(t, w)

SpecID == ID_Init /\ [][ID_Next]_vars

(***************************************************************************)
(* Date values as the sheet hands them over: null, a number or a string    *)
(* (a sequence of characters), and formatDisplayDate on them.              *)
(***************************************************************************)
Null == [k |-> "null"]

Num(n) == [k |-> "num", n |-> n]

Str(s) == [k |-> "str", s |-> s]

NA == Str(<<"N", "/", "A">>)

\* !dateValue
Falsy(v) ==
    \/ v.k = "null"
    \/ v.k = "num" /\ v.n \in {0, NaN}
    \/ v.k = "str" /\ v.s = <<>>

IsDigits(s) == Len(s) > 0 /\ \A i \in 1..Len(s) : IsDigit(s[i])

\* Number(v): integers with an optional sign; NaN for any other text
ToNumber(v) ==
    IF v.k = "null" THEN 0
    ELSE IF v.k = "num" THEN v.n
    ELSE LET s == trim(v.s)
         IN IF s = <<>> THEN 0
            ELSE IF IsDigits(s) THEN parseInt(s)
            ELSE IF s[1] = "-" /\ IsDigits(Tail(s)) THEN -parseInt(Tail(s))
            ELSE NaN

\* String(v) of a number or a string
StringValue(v) ==
    IF v.k = "str" THEN v.s
    ELSE IF v.n < 0 THEN <<"-">> \o StringOf(-v.n) ELSE StringOf(v.n)

\* s.split('-')
RECURSIVE split(_)
split(s) ==
    LET dashes == {i \in 1..Len(s) : s[i] = "-"}
        first == CHOOSE i \in dashes : \A j \in dashes : i <= j
    IN IF dashes = {} THEN <<s>>
       ELSE <<SubSeq(s, 1, first - 1)>> \o split(SubSeq(s, first + 1, Len(s)))

\* the text of the day in the order day, month, year
DisplayDate(day) == [k |-> "dd-mm-yyyy", day |-> day]

formatDisplayDate(dateValue) ==
    IF Falsy(dateValue) THEN NA
    ELSE LET isoDate == StringValue(dateValue)
             converted == serialDateToISO(ToNumber(Str(isoDate)))
             parts == split(isoDate)
         IN IF IsDigits(isoDate)
            THEN (IF converted = NoDate THEN dateValue ELSE DisplayDate(converted.day))
            ELSE IF Len(parts) = 3
            THEN Str(parts[3] \o <<"-">> \o parts[2] \o <<"-">> \o parts[1])
            ELSE dateValue

\* src/script.js updateDashboard: the date a stored value is converted to
ConvertedDate(raw) ==
    safeDate(IF Falsy(raw) THEN NoDate ELSE serialDateToISO(ToNumber(raw)))

\* date values that are no date: empty, null, negative, text that is neither
\* a number nor an ISO date
KPI_BadDates ==
    { Str(<<>>), Null, Num(-5), Str(<<"-", "5">>), Str(<<"a", "b", "c">>),
      Str(<<"1", "2", "/", "0", "5", "/", "2", "0", "2", "4">>),
      Str(<<"n", "o", "t", "-", "s", "e", "t">>), Str(<<"t", "-", "b", "-", "d">>) }

\* date values that are one: serial numbers as number and as text, an ISO string
KPI_GoodDates ==
    { Num(Today + SerialOfUnixEpoch), Str(StringOf(Today + SerialOfUnixEpoch)),
      Str(<<"2", "0", "2", "4", "-", "1", "0", "-", "0", "6">>) }

DatedExpense(date, amount) == [ProjectID |-> 1, Amount |-> amount, Description |-> "d", Date |-> date]

KPI_DatedExpenses == {DatedExpense(d, a) : d \in KPI_BadDates \cup KPI_GoodDates, a \in {1, 2}}

(***************************************************************************)
(* The KPI tiles of one project, computed from the stored rows by each of  *)
(* the three dashboards at some instant of the day Today.                  *)
(***************************************************************************)
\* src/script.js loadTasks: the percentage of the task-progress tile
totalProgressPercentage(projectTasks) ==
    IF Len(projectTasks) > 0
    THEN Round(SumSeq(Progresses(projectTasks)), Len(projectTasks))
    ELSE 0

\* src/unnamed/part_000 renderKPIs: the percentage of the task-progress tile
IF_overallProgress(taskRows) ==
    LET withProgress(task) == task.Progress >= 0
        tasksWithProgress == SelectSeq(taskRows, withProgress)
    IN IF Len(tasksWithProgress) > 0
       THEN Round(SumSeq(Progresses(tasksWithProgress)), Len(tasksWithProgress))
       ELSE 0

\* src/unnamed/part_000 renderTaskTable: the status shown in a task's row
IF_shownStatus(task) ==
    IF Progress(task) = 100 THEN "Complete"
    ELSE IF Progress(task) > 0 THEN "In Progress" ELSE "Pending"

\* src/unnamed/part_001 loadTasks: the number of tasks counted as completed
AS_completedTasks(projectTasks) == Len(SelectSeq(projectTasks, AS_isCompleted))

\* src/unnamed/part_001 loadExpenses: the budget-spent percentage
AS_spentPercentage(spent, budget) ==
    IF budget > 0 THEN Round(100 * spent, budget)
    ELSE IF spent > 0 THEN 1000 ELSE 0

DatedProject(start, deadline, budget) == [ProjectID |-> 1, Name |-> "a", StartDate |-> start, Deadline |-> deadline, Budget |-> budget]

\* a tile of the page: what kind of text it shows and the value in it
KPI_Tile(tag, val) == [tag |-> tag, val |-> val]

NoTiles ==
    [by |-> "none", today |-> 0,
     daysSpent |-> DaysTile("na", 0), daysLeft |-> DaysTile("na", 0),
     progress |-> KPI_Tile("na", 0), complete |-> KPI_Tile("na", {}),
     totalExpenses |-> KPI_Tile("na", 0), spentPercentage |-> KPI_Tile("na", 0)]

\* stored task rows of the project: every status with every progress
KPI_TaskRows == {TaskRow(1, n, st, pr, "") : n \in 1..NumTasks, st \in Statuses, pr \in ProgressInputs \cup {NaN}}

KPI_TaskLists ==
    {<<>>} \cup {<<r>> : r \in {t \in KPI_TaskRows : t.TaskName = 1}}
           \cup {<<r, s>> : r \in {t \in KPI_TaskRows : t.TaskName = 1},
                            s \in {t \in KPI_TaskRows : t.TaskName = 2}}

\* stored expense rows of the project
KPI_ExpenseRows == {ExpenseRow(1, a, "d") : a \in AmountInputs \cup {10}}

KPI_ExpenseLists == {<<>>} \cup {<<r>> : r \in KPI_ExpenseRows} \cup {<<r, s>> : r \in KPI_ExpenseRows, s \in KPI_ExpenseRows}

KPI_Budgets == {NaN, 0, 1, 2}

KPI_Init ==
    /\ \/ /\ \E start \in StoredDates, deadline \in StoredDates :
                 projects = <<DatedProject(start, deadline, 0)>>
          /\ tasks = <<>>
          /\ expenses = <<>>
       \/ /\ projects = <<DatedProject(EmptyDate, EmptyDate, 0)>>
          /\ tasks \in KPI_TaskLists
          /\ expenses = <<>>
       \/ /\ \E budget \in KPI_Budgets : projects = <<DatedProject(EmptyDate, EmptyDate, budget)>>
          /\ tasks = <<>>
          /\ expenses \in KPI_ExpenseLists
       \/ /\ projects = <<DatedProject(EmptyDate, EmptyDate, 0)>>
          /\ tasks = <<>>
          /\ expenses \in {<<e>> : e \in KPI_DatedExpenses}
    /\ materials = <<>>
    /\ nextItem = 2
    /\ currentProjectID = 1
    /\ allProjects = projects
    /\ projectSelector = [options |-> <<1>>, value |-> 1]
    /\ storedProjectID = NoProject
    /\ currentProjectName = "a"
    /\ details = [mode |-> "display", project |-> projects[1]]
    /\ taskPanel = Panel("select", NoProject, <<>>, "none")
    /\ expensePanel = Panel("select", NoProject, <<>>, "none")
    /\ materialPanel = Panel("select", NoProject, <<>>, "none")
    /\ kpi = NoTiles
    /\ totalSpent = 0
    /\ taskToUpdateSelector = {}
    /\ inflight = EmptyBag
    /\ lastAlert = NoAlert
    /\ unhandled = FALSE
    /\ events = 0
    /\ faults = 0

KPI_Rest == <<projects, tasks, expenses, materials, nextItem, currentProjectID, allProjects, projectSelector, storedProjectID, currentProjectName, details, taskPanel, expensePanel, materialPanel, totalSpent, taskToUpdateSelector, inflight, lastAlert, unhandled, events, faults>>

\* src/script.js updateDashboard(project) at the instant now
KPI_updateDashboard(now) ==
    /\ kpi.by \in {"none", "script.js"}
    /\ kpi' = [kpi EXCEPT !.by = "script.js",
                          !.today = now \div TicksPerDay,
                          !.daysSpent = DaysSpent(details.project, now),
                          !.daysLeft = DaysLeft(details.project, now)]
    /\ UNCHANGED KPI_Rest

\* src/script.js loadTasks after a successful read of the project's tasks
KPI_loadTasks ==
    /\ kpi.by \in {"none", "script.js"}
    /\ kpi' = [kpi EXCEPT !.by = "script.js",
                          !.progress = KPI_Tile("pct", totalProgressPercentage(ForProject(tasks, currentProjectID)))]
    /\ UNCHANGED KPI_Rest

\* src/script.js loadExpenses after a successful read of one dated expense of
\* the project, no other load being under way
KPI_loadExpenses ==
    /\ kpi.by \in {"none", "script.js"}
    /\ Len(expenses) = 1 /\ "Date" \in DOMAIN expenses[1]
    /\ LET projectExpenses == ForProject(expenses, currentProjectID)
           shown == formatDisplayDate(projectExpenses[1].Date)
       IN /\ expensePanel' = Panel("rows", currentProjectID,
                                   <<[date |-> IF Falsy(shown) THEN NA ELSE shown,
                                      amount |-> OrZero(projectExpenses[1].Amount)]>>, "ok")
          /\ kpi' = [kpi EXCEPT !.by = "script.js",
                                !.totalExpenses = KPI_Tile("amount", SumSeq(Amounts(Recent(projectExpenses))))]
    /\ UNCHANGED <<projects, tasks, expenses, materials, nextItem, currentProjectID, allProjects, projectSelector, storedProjectID, currentProjectName, details, taskPanel, materialPanel, totalSpent, taskToUpdateSelector, inflight, lastAlert, unhandled, events, faults>>

\* src/unnamed/part_001 updateDashboard(project) at the instant now, the
\* browser's local time being tz ahead of UTC
KPI_AS_updateDashboard(now, tz) ==
    /\ kpi.by \in {"none", "part_001"}
    /\ kpi' = [kpi EXCEPT !.by = "part_001",
                          !.today = (now + tz) \div TicksPerDay,
                          !.daysSpent = AS_DaysSpent(details.project, now, tz, kpi.daysSpent),
                          !.daysLeft = AS_DaysLeft(details.project, now, tz)]
    /\ UNCHANGED KPI_Rest

\* src/unnamed/part_001 loadTasks after a successful read of the project's tasks
KPI_AS_loadTasks ==
    /\ kpi.by \in {"none", "part_001"}
    /\ LET projectTasks == ForProject(tasks, currentProjectID)
       IN kpi' = [kpi EXCEPT !.by = "part_001",
                             !.complete = KPI_Tile("tasks", {projectTasks[i].TaskName : i \in {k \in 1..Len(projectTasks) : AS_isCompleted(projectTasks[k])}}),
                             !.progress = IF Len(projectTasks) > 0
                                          THEN KPI_Tile("completed", Round(100 * AS_completedTasks(projectTasks), Len(projectTasks)))
                                          ELSE KPI_Tile("notasks", 0)]
    /\ UNCHANGED KPI_Rest

\* src/unnamed/part_001 loadExpenses after a successful read of the project's
\* expenses, no other load being under way
KPI_AS_loadExpenses ==
    /\ kpi.by \in {"none", "part_001"}
    /\ LET spent == SumSeq(Amounts(ForProject(expenses, currentProjectID)))
           budget == OrZero(Find(allProjects, currentProjectID).Budget)
       IN kpi' = [kpi EXCEPT !.by = "part_001",
                             !.totalExpenses = KPI_Tile("amount", spent),
                             !.spentPercentage = KPI_Tile("pct", AS_spentPercentage(spent, budget))]
    /\ UNCHANGED KPI_Rest

\* src/unnamed/part_000 renderKPIs and renderTaskTable at the instant now
KPI_IF_renderKPIs(now) ==
    /\ kpi.by \in {"none", "part_000"}
    /\ kpi' = [kpi EXCEPT !.by = "part_000",
                          !.today = now \div TicksPerDay,
                          !.daysSpent = IF_DaysSpent(details.project, now),
                          !.daysLeft = IF_DaysLeft(details.project, now),
                          !.progress = KPI_Tile("pct", IF_overallProgress(tasks)),
                          !.complete = KPI_Tile("tasks", {tasks[i].TaskName : i \in {k \in 1..Len(tasks) : IF_shownStatus(tasks[k]) = "Complete"}}),
                          !.totalExpenses = KPI_Tile("amount", SumSeq(Amounts(expenses)))]
    /\ UNCHANGED KPI_Rest

KPI_Next ==
    \/ \E now \in Nows : KPI_updateDashboard(now)
    \/ KPI_loadTasks
    \/ KPI_loadExpenses
    \/ \E now \in Nows, tz \in TimeZones : KPI_AS_updateDashboard(now, tz)
    \/ KPI_AS_loadTasks
    \/ KPI_AS_loadExpenses
    \/ \E now \in Nows : KPI_IF_renderKPIs(now)

SpecKPI == KPI_Init /\ [][KPI_Next]_vars

(***************************************************************************)
(* C13: for every project whose start date resolves, the days-spent KPI is *)
(* the number of whole calendar days from the start date to today when the *)
(* start date is on or before today, and 0 when it is after today.         *)
(***************************************************************************)
C13_DaysSpentSinceStart ==
    kpi.by # "none" /\ kpi.daysSpent.tag = "days" =>
        LET start == DayOf(details.project.StartDate)
        IN kpi.daysSpent.val = IF start <= kpi.today THEN kpi.today - start ELSE 0

(***************************************************************************)
(* C14: for every project whose deadline resolves, when today is on or     *)
(* before the deadline the days-left KPI is the whole-day distance from    *)
(* today to the deadline and is not marked overdue; when today is after    *)
(* the deadline it is the whole-day distance from the deadline to today    *)
(* and is marked overdue.  A project without a deadline shows 'no          *)
(* deadline'.                                                              *)
(***************************************************************************)
C14_DaysLeftOrOverdue ==
    kpi.by \in {"script.js", "part_001"} =>
        LET deadline == details.project.Deadline
        IN IF deadline = EmptyDate THEN kpi.daysLeft.tag = "nodeadline"
           ELSE kpi.daysLeft.tag # "nodeadline" =>
                    IF kpi.today <= DayOf(deadline)
                    THEN kpi.daysLeft = DaysTile("left", DayOf(deadline) - kpi.today)
                    ELSE kpi.daysLeft = DaysTile("overdue", kpi.today - DayOf(deadline))

(***************************************************************************)
(* C15: a project whose StartDate or Deadline is stored as an ISO          *)
(* YYYY-MM-DD string gets the days-spent and days-left values of the       *)
(* equivalent serial number; in particular days spent is a number, not     *)
(* unknown, for the ISO start date that add-project writes.                *)
(***************************************************************************)
C15_ISODatesCountLikeSerials ==
    \A now \in Nows :
        kpi.by = "script.js" /\ kpi.today = now \div TicksPerDay =>
            /\ details.project.StartDate.k = "iso" =>
                   /\ kpi.daysSpent.tag = "days"
                   /\ kpi.daysSpent = DaysSpent([StartDate |-> SerialDate(details.project.StartDate.day)], now)
            /\ details.project.Deadline.k = "iso" =>
                   kpi.daysLeft = DaysLeft([Deadline |-> SerialDate(details.project.Deadline.day)], now)

\* the amount an expense row contributes: 0 when it is not a number or negative
Contribution(row) == IF row.Amount = NaN \/ row.Amount < 0 THEN 0 ELSE row.Amount

Contributions(rows) == [i \in 1..Len(rows) |-> Contribution(rows[i])]

(***************************************************************************)
(* C16: once every request has completed and the expenses of the selected  *)
(* project were read successfully, the total-expenses KPI is the sum of    *)
(* the amounts of all stored expense rows of that project, a non-numeric   *)
(* or negative amount contributing 0.                                      *)
(***************************************************************************)
C16_TotalExpensesIsSum ==
    (/\ Quiet
     /\ currentProjectID # NoProject
     /\ expensePanel.pid = currentProjectID
     /\ expensePanel.read = "ok") =>
        kpi.totalExpenses =
            Tile("amount", SumSeq(Contributions(ForProject(expenses, currentProjectID))),
                 currentProjectID)

\* the progress a task counts with: 0 when it has none
ProgressOrZero(task) == IF task.Progress = NaN THEN 0 ELSE task.Progress

(***************************************************************************)
(* C17: the task-progress KPI is the rounded average of the progress       *)
(* values over all tasks of the selected project, a task with missing      *)
(* progress counting as 0 and counting in the divisor, and is 0 for a      *)
(* project with no tasks.                                                  *)
(***************************************************************************)
C17_ProgressIsRoundedAverage ==
    kpi.by \in {"script.js", "part_000"} /\ kpi.progress.tag = "pct" =>
        LET projectTasks == ForProject(tasks, currentProjectID)
            sum == SumSeq([i \in 1..Len(projectTasks) |-> ProgressOrZero(projectTasks[i])])
        IN kpi.progress.val = IF Len(projectTasks) = 0 THEN 0
                              ELSE (2 * sum + Len(projectTasks)) \div (2 * Len(projectTasks))

(***************************************************************************)
(* C18: a task is counted and displayed as complete when its progress      *)
(* equals 100 or its status, trimmed and lower-cased, is 'completed' or    *)
(* 'done'; either signal alone is enough.                                  *)
(***************************************************************************)
C18_CompleteByProgressOrStatus ==
    kpi.complete.tag = "tasks" =>
        kpi.complete.val =
            {tasks[i].TaskName : i \in {k \in 1..Len(tasks) :
                 tasks[k].Progress = 100 \/ tasks[k].Status \in {"Completed", "Done"}}}

\* the percentages round(spent / budget * 100) of the budgets and totals at hand
NormalPercentages ==
    {(2 * 100 * s + b) \div (2 * b) : s \in 0..(2 * 10), b \in {x \in KPI_Budgets : x > 0}}

(***************************************************************************)
(* C19: the budget-spent percentage is round(totalSpent / budget * 100)    *)
(* when budget > 0, is 0 when budget and totalSpent are both 0, and is a   *)
(* value distinct from every normal percentage when budget is 0 and        *)
(* totalSpent > 0.                                                         *)
(***************************************************************************)
C19_BudgetSpentPercentage ==
    kpi.spentPercentage.tag = "pct" =>
        LET budget == details.project.Budget
            spent == kpi.totalExpenses.val
        IN /\ (budget # NaN /\ budget > 0) =>
                  kpi.spentPercentage.val = (2 * 100 * spent + budget) \div (2 * budget)
           /\ (budget = 0 /\ spent = 0) => kpi.spentPercentage.val = 0
           /\ (budget = 0 /\ spent > 0) => kpi.spentPercentage.val \notin NormalPercentages

(***************************************************************************)
(* C20: the material-dispatch KPI is round(total dispatched / total        *)
(* required * 100) limited to the range 0..100 when the total required is  *)
(* positive, and 0 otherwise; it never exceeds 100.                        *)
(***************************************************************************)
C20_MaterialKPIWithin100 ==
    (/\ Quiet
     /\ currentProjectID # NoProject
     /\ materialPanel.pid = currentProjectID
     /\ materialPanel.read = "ok") =>
        LET rows == ForProject(materials, currentProjectID)
            required == SumSeq([i \in 1..Len(rows) |-> OrZero(rows[i].Required_Qty)])
            dispatched == SumSeq([i \in 1..Len(rows) |-> OrZero(rows[i].Dispatched_Qty)])
            percent == (2 * 100 * dispatched + required) \div (2 * required)
        IN kpi.material =
               Tile("pct", IF required > 0
                           THEN (IF percent > 100 THEN 100 ELSE IF percent < 0 THEN 0 ELSE percent)
                           ELSE 0, currentProjectID)

(***************************************************************************)
(* Claims C21 .. C30.                                                      *)
(***************************************************************************)
\* the letter in upper case
Upper(c) == IF c = "h" THEN "H" ELSE IF c = "t" THEN "T" ELSE c

\* the number a string of decimal digits denotes
Denotes(ds) == SumSeq([i \in 1..Len(ds) |-> DigitValue(ds[i]) * 10 ^ (Len(ds) - i)])

\* the numbers of the identifiers that read HT-<digits>, in any letter case
SuffixesOf(projs) ==
    {Denotes(SubSeq(trim(projs[i].ProjectID), 4, Len(trim(projs[i].ProjectID)))) :
        i \in {k \in 1..Len(projs) :
                  LET id == trim(projs[k].ProjectID)
                  IN /\ Len(id) > 3
                     /\ <<Upper(id[1]), Upper(id[2]), id[3]>> = <<"H", "T", "-">>
                     /\ \A j \in 4..Len(id) : id[j] \in Range(DigitChars)}}

NextProjectId(projs) ==
    LET largest == CHOOSE m \in SuffixesOf(projs) \cup {0} :
                       \A n \in SuffixesOf(projs) : n <= m
    IN <<"H", "T", "-">> \o (IF largest + 1 < 10 THEN <<"0">> ELSE <<>>) \o StringOf(largest + 1)

\* C21: for every list of existing project identifiers, the identifier
\* generated for a new project is 'HT-' followed by the largest numeric
\* suffix among the identifiers of the form HT-<digits> (letter case
\* ignored; 0 if there is none) plus 1, zero-padded to at least 2 digits.
C21_NewIDIsMaxPlusOne ==
    [][\A t \in BagToSet(inflight') \ BagToSet(inflight) :
           t.op = "addProject" => t.newID = NextProjectId(allProjects)]_vars

\* existing identifiers HT-01, HT-03, HT-2: the request carries HT-04
C21_Witness ==
    /\ [i \in 1..Len(allProjects) |-> allProjects[i].ProjectID] =
           << <<"H", "T", "-", "0", "1">>, <<"H", "T", "-", "0", "3">>, <<"H", "T", "-", "2">> >>
    /\ \E t \in InFlight : t.op = "addProject" /\ t.newID = <<"H", "T", "-", "0", "4">>

\* C22: for every empty, null, negative or non-numeric non-ISO date input,
\* the serial/ISO conversion yields no date and the display formatter
\* returns the literal 'N/A'.
C22_BadDatesShowNA ==
    \A i \in 1..Len(expensePanel.rows) :
        (expensePanel.st = "rows" /\ expenses[i].Date \in KPI_BadDates) =>
            /\ ConvertedDate(expenses[i].Date) = NoDate
            /\ expensePanel.rows[i].date = NA

ExpenseLoads(infl) == {t \in BagToSet(infl) : t.op = "loadExpenses"}

\* C23: when expense loads overlap, the total-expenses value displayed after
\* the last of them has completed is the expense total of the project of
\* that last load alone.
C23_OverlappingLoadsDoNotAdd ==
    (/\ ExpenseLoads(inflight) = {}
     /\ expensePanel.read = "ok"
     /\ expensePanel.st \in {"rows", "empty"}) =>
        kpi.totalExpenses = Tile("amount", SumSeq(Amounts(expensePanel.rows)), expensePanel.pid)

(***************************************************************************)
(* src/script.js: a session in which the user only picks projects and      *)
(* edits their details.                                                    *)
(***************************************************************************)
MaxEdits == 2            \* user events of such a session

EditInit ==
    /\ projects = <<ProjectRow(1, "a"), ProjectRow(2, "b")>>
    /\ tasks = SeedTasks(Ids(projects))
    /\ expenses = <<>>
    /\ materials = <<>>
    /\ nextItem = 2
    /\ currentProjectID = NoProject
    /\ allProjects = <<>>
    /\ projectSelector = [options |-> <<>>, value |-> NoProject]
    /\ currentProjectName = "Select a Project"
    /\ details = [mode |-> "display", project |-> NoRow]
    /\ taskPanel = Panel("select", NoProject, <<>>, "none")
    /\ expensePanel = Panel("select", NoProject, <<>>, "none")
    /\ materialPanel = Panel("select", NoProject, <<>>, "none")
    /\ kpi = [progress |-> Tile("pct", 0, NoProject),
              material |-> Tile("pct", 0, NoProject),
              totalExpenses |-> Tile("amount", 0, NoProject)]
    /\ storedProjectID = NoProject
    /\ totalSpent = 0
    /\ taskToUpdateSelector = {}
    /\ lastAlert = NoAlert
    /\ unhandled = FALSE
    /\ events = MaxEvents - MaxEdits
    /\ faults = 0
    /\ inflight = One([op |-> "loadProjects", then |-> "none"])

EditNext ==
    \/ \E t \in InFlight, outcome \in FetchOutcomes : LoadProjectsDone(t, outcome)
    \/ \E t \in InFlight, outcome \in FetchOutcomes : LoadTasksDone(t, outcome)
    \/ \E t \in InFlight, outcome \in FetchOutcomes : LoadTasksForDropdownDone(t, outcome)
    \/ \E t \in InFlight, outcome \in FetchOutcomes : LoadExpensesDone(t, outcome)
    \/ \E t \in InFlight, outcome \in FetchOutcomes : LoadMaterialsDone(t, outcome)
    \/ \E projectID \in 1..2 : ProjectSelectorChange(projectID)
    \/ \E n \in {"c"} : SaveProjectDetailsClick(n)
    \/ \E t \in InFlight, w \in WriteOutcomes : SaveProjectDetailsDone(t, w)

SpecEdit == EditInit /\ [][EditNext]_vars

\* the reload of the project list that the save-details handler awaits
\* completes in this step, and the list arrives
SaveReloadCompletes(t) ==
    /\ t.op = "loadProjects" /\ t.then = "reselect"
    /\ CopiesIn(t, inflight') < CopiesIn(t, inflight)
    /\ allProjects' = projects

\* C24: after project details are saved successfully, the project that was
\* edited is still the selected project (currentProjectID and the selector
\* both name it) and the dashboard shows its updated details, whichever
\* position it has in the project list.
C24_SavedProjectStaysSelected ==
    [][\A t \in InFlight : SaveReloadCompletes(t) =>
           \A i \in 1..Len(projects) :
               projects[i].Name = "c" =>
                   /\ currentProjectID' = projects[i].ProjectID
                   /\ projectSelector'.value = projects[i].ProjectID
                   /\ details'.project = projects[i]]_vars


\* the fetches of one project selection: script.js starts one request per
\* loader, part_000 one renderDashboard that waits for its three reads
SelectionFetches == {"loadTasks", "loadExpenses", "loadMaterials"}

\* a fetch of a selection of project p is answered in this step while
\* another fetch of a selection of p is still unanswered
AnsweredBeforeTheOthers(t) ==
    \/ /\ t.op \in SelectionFetches
       /\ CopiesIn(t, inflight') < CopiesIn(t, inflight)
       /\ \E u \in BagToSet(inflight') : u.op \in SelectionFetches /\ u.pid = t.pid
    \/ /\ t.op = "renderDashboard"
       /\ CopiesIn(t, inflight') < CopiesIn(t, inflight)
       /\ \E u \in BagToSet(inflight') \ BagToSet(inflight) :
              /\ u.op = "renderDashboard" /\ u.pid = t.pid
              /\ \E sh \in DOMAIN u.res : u.res[sh].read = "pending"

\* C25: for one project selection the task, expense and material fetches are
\* all outstanding together, and no task, expense or material KPI is written
\* until all of them have completed.
C25_KPIsWaitForAllFetches ==
    [][\A t \in InFlight : AnsweredBeforeTheOthers(t) => kpi' = kpi]_vars


\* a step in which the project-selection handler runs: the user picks an
\* entry of the selector, or an answered project-list fetch ends by calling
\* the handler for the project to show
SelectionHandlerStep ==
    \/ /\ events' = events + 1
       /\ projectSelector'.value = currentProjectID'
       /\ projectSelector'.options = projectSelector.options
    \/ \E t \in InFlight :
           /\ t.op = "loadProjects"
           /\ CopiesIn(t, inflight') < CopiesIn(t, inflight)

\* C26: every operation other than the project-selection handler (load
\* projects, add, delete, save details, expense, task and dispatch submits
\* and all loaders) leaves currentProjectID unchanged.
C26_OnlySelectionWritesCurrentProject ==
    [][currentProjectID' # currentProjectID => SelectionHandlerStep]_vars


(***************************************************************************)
(* src/unnamed/part_000: a session in which the user only updates the      *)
(* tasks of one newly seeded project.                                      *)
(***************************************************************************)
SelTasks == 3            \* tasks of the seeded project
MaxUpdates == 3          \* user events of such a session

\* the sheet may hold the seeded rows in any order
SeededOrders ==
    { [i \in 1..SelTasks |-> i],
      [i \in 1..SelTasks |-> ((i + SelTasks - 2) % SelTasks) + 1] }

SelInit ==
    /\ projects = <<ProjectRow(1, "a")>>
    /\ \E order \in SeededOrders :
          tasks = [i \in 1..SelTasks |-> TaskRow(1, order[i], "Pending", 0, "")]
    /\ expenses = <<>>
    /\ materials = <<>>
    /\ nextItem = 2
    /\ currentProjectID = NoProject
    /\ allProjects = <<>>
    /\ projectSelector = [options |-> <<>>, value |-> NoProject]
    /\ storedProjectID = NoProject
    /\ currentProjectName = "Select a Project"
    /\ details = [mode |-> "display", project |-> NoRow]
    /\ taskPanel = Panel("select", NoProject, <<>>, "none")
    /\ expensePanel = Panel("select", NoProject, <<>>, "none")
    /\ materialPanel = Panel("select", NoProject, <<>>, "none")
    /\ kpi = [progress |-> Tile("pct", 0, NoProject),
              material |-> Tile("pct", 0, NoProject),
              totalExpenses |-> Tile("amount", 0, NoProject)]
    /\ totalSpent = 0
    /\ taskToUpdateSelector = {}
    /\ lastAlert = NoAlert
    /\ unhandled = FALSE
    /\ events = MaxEvents - MaxUpdates
    /\ faults = 0
    /\ inflight = One([op |-> "loadProjects", then |-> "none"])

SelNext ==
    \/ \E t \in InFlight, outcome \in IF_FetchOutcomes : IF_LoadProjectsDone(t, outcome)
    \/ \E t \in InFlight, sh \in {"Tasks", "Expenses", "Materials"},
          outcome \in IF_FetchOutcomes : IF_FetchDone(t, sh, outcome)
    \/ \E n \in 0..SelTasks, pr \in ProgressInputs : IF_UpdateTaskSubmit(n, pr)
    \/ \E t \in InFlight, w \in IF_WriteOutcomes : IF_UpdateTaskDone(t, w)

SpecSel == SelInit /\ [][SelNext]_vars

\* the tasks are listed in workflow order
InWorkflowOrder(rows) ==
    \A i, j \in 1..Len(rows) : i < j => rows[i].TaskName < rows[j].TaskName

\* C27: in the task-update selector built from the tasks in workflow order, a
\* task is locked exactly when its progress is below 100 and some earlier
\* task's progress is below 100.
C27_LockedAfterIncompleteTask ==
    (taskPanel.st = "rows" /\ InWorkflowOrder(taskPanel.rows)) =>
        \A i \in 1..Len(taskPanel.rows) :
            taskPanel.rows[i].TaskName \notin taskToUpdateSelector
                <=> /\ taskPanel.rows[i].Progress < 100
                    /\ \E j \in 1..(i - 1) : taskPanel.rows[j].Progress < 100

C27_Witness ==
    /\ taskPanel.st = "rows"
    /\ InWorkflowOrder(taskPanel.rows)
    /\ tasks[1].TaskName = 3
    /\ [i \in 1..Len(taskPanel.rows) |-> taskPanel.rows[i].Progress] = <<0, 100, 0>>
    /\ taskToUpdateSelector = {1, 2}


\* the stored tasks of project p in workflow order
Workflow(p) == IF_sortTasks(ForProject(tasks, p))

\* C28: from a newly seeded project (all tasks at progress 0), any sequence
\* of selector-permitted task updates keeps the tasks at 100 a prefix of
\* the workflow order.
C28_CompletedTasksFormPrefix ==
    \A i, j \in 1..Len(Workflow(1)) :
        (i < j /\ Workflow(1)[j].Progress = 100) => Workflow(1)[i].Progress = 100


\* the requests of the handlers that work on the selected project
SelectedProjectOps == {"expense", "updateTask", "dispatch", "saveDetails", "deleteProject"}

\* the requests of one handler that are under way
RequestsOf(infl, op) ==
    BagCardinality([t \in {u \in BagToSet(infl) : u.op = op} |-> CopiesIn(t, infl)])

\* C29: while no project is selected (currentProjectID is null or empty),
\* the handlers for recording an expense, updating a task, recording a
\* dispatch, saving project details and deleting a project issue no store
\* request.
C29_NoRequestWithoutProject ==
    [][currentProjectID = NoProject =>
           \A op \in SelectedProjectOps :
               RequestsOf(inflight', op) <= RequestsOf(inflight, op)]_vars

C29_Witness ==
    /\ currentProjectID = NoProject
    /\ lastAlert = Alert("expense", "select a project", <<>>)
    /\ \A t \in InFlight : t.op \notin SelectedProjectOps


====
